---- MODULE Spec2Model ----
(***************************************************************************)
(* Model of the l10n core: the locale graph (core/src/locales.rs) and the  *)
(* catalog builder / bundle resolver (core/src/l10n.rs).                   *)
(*                                                                         *)
(* Option<T> is a sequence of length 0 (None) or 1 (Some).                 *)
(* A string or path is a sequence of tokens, "/" being the separator.      *)
(***************************************************************************)
EXTENDS Integers, Sequences, FiniteSets, TLC

VARIABLES
    entries_in,               \* the Vec<LocaleEntry> handed to Locales::try_new
    try_new,                  \* result of Locales::try_new
    locales,                  \* Locales.locales (of the graph / of the builder)
    route,                    \* one call of locale_resolution_route, with its loop position
    fluent_resources,         \* L10nBuilder.fluent_resources
    global_unnamed_resources, \* L10nBuilder.global_unnamed_resources
    unnamed_resources,        \* L10nBuilder.unnamed_resources
    named_resources,          \* L10nBuilder.named_resources
    phase,                    \* "builder" | "built" | "build_failed" | "panicked"
    resources,                \* InnerL10n dependent: name -> locale -> bundle
    build_errors,             \* BuildErrors.0
    parse,                    \* L10nBuilder::parse: position and locales_visited
    functions,                \* L10nBuilder.functions: the registered function names
    query                     \* the last query made on the engine, with its result

vars == <<entries_in, try_new, locales, route, fluent_resources,
          global_unnamed_resources, unnamed_resources, named_resources,
          phase, resources, build_errors, parse, functions, query>>

locale_vars == <<entries_in, try_new, locales, route>>
builder_vars == <<fluent_resources, global_unnamed_resources, unnamed_resources,
                  named_resources, phase, resources, build_errors>>
query_vars == <<parse, functions, query>>

----------------------------------------------------------------------------
(* Bounds and input sets *)

MaxEntries == 3
MaxBuilderEntries == 2
MaxResources == 3

LocaleIds == {"en", "en-GB", "fr"}
BuilderLocaleIds == {"en", "en-GB"}

None == <<>>
Some(x) == <<x>>

Contains(s, x) == \E i \in DOMAIN s : s[i] = x
Reverse(s) == [i \in 1..Len(s) |-> s[Len(s) + 1 - i]]
Front(s) == SubSeq(s, 1, Len(s) - 1)
Range(s) == {s[i] : i \in DOMAIN s}
EmptyMap == [x \in {} |-> 0]

SeqsUpTo(S, n) == UNION {[1..k -> S] : k \in 0..n}

\* every enumeration of a finite set, one per possible iteration order of a hash table
Enumerations(S) ==
    {s \in [1..Cardinality(S) -> S] : \A i, j \in 1..Cardinality(S) : i # j => s[i] # s[j]}

LocaleEntry(main, fallback) == [main |-> main, fallback |-> fallback]

LocaleEntries(ids) ==
    {LocaleEntry(m, f) : m \in ids, f \in {None} \cup {Some(l) : l \in ids}}

----------------------------------------------------------------------------
(* core/src/locales.rs *)

RECURSIVE find_from(_, _, _)
find_from(ls, locale, i) ==
    IF i > Len(ls) THEN None
    ELSE IF ls[i].main = locale THEN Some(ls[i])
    ELSE find_from(ls, locale, i + 1)

find_with_main_locale(ls, locale) == find_from(ls, locale, 1)

\* fallback_loop reporting the visited mains without the repeated locale
RECURSIVE fallback_loop_unclosed(_, _, _)
fallback_loop_unclosed(ls, visited_locales, current_tr_locale) ==
    IF current_tr_locale = None THEN None
    ELSE LET tr_locale == current_tr_locale[1]
             visited == Append(visited_locales, tr_locale.main)
         IN  IF tr_locale.fallback = None THEN None
             ELSE IF Contains(visited, tr_locale.fallback[1])
                  THEN Some(visited)
             ELSE fallback_loop_unclosed(ls, visited,
                                         find_with_main_locale(ls, tr_locale.fallback[1]))

\* the inner `while let` of check_invariants: Some(visited) when a loop is found
RECURSIVE fallback_loop(_, _, _)
fallback_loop(ls, visited_locales, current_tr_locale) ==
    IF current_tr_locale = None THEN None
    ELSE LET tr_locale == current_tr_locale[1]
             visited == Append(visited_locales, tr_locale.main)
         IN  IF tr_locale.fallback = None THEN None
             ELSE IF Contains(visited, tr_locale.fallback[1])
                  THEN Some(Append(visited, tr_locale.fallback[1]))
             ELSE fallback_loop(ls, visited,
                                find_with_main_locale(ls, tr_locale.fallback[1]))

\* check_invariants without the duplicate test
RECURSIVE check_invariants_no_duplicate_test(_, _, _)
check_invariants_no_duplicate_test(ls, i, main_locales) ==
    IF i > Len(ls)
    THEN IF main_locales = {} THEN [kind |-> "Empty"] ELSE [kind |-> "Ok"]
    ELSE LET loop == fallback_loop(ls, <<>>, Some(ls[i]))
         IN  IF loop # None
             THEN [kind |-> "InfiniteFallbackLoop", visited |-> loop[1]]
             ELSE check_invariants_no_duplicate_test(ls, i + 1,
                                                     main_locales \cup {ls[i].main})

RECURSIVE check_invariants_from(_, _, _)
check_invariants_from(ls, i, main_locales) ==
    IF i > Len(ls)
    THEN IF main_locales = {} THEN [kind |-> "Empty"] ELSE [kind |-> "Ok"]
    ELSE IF ls[i].main \in main_locales
         THEN [kind |-> "MainLocaleDuplicate", locale |-> ls[i].main]
    ELSE LET loop == fallback_loop(ls, <<>>, Some(ls[i]))
         IN  IF loop # None
             THEN [kind |-> "InfiniteFallbackLoop", visited |-> loop[1]]
             ELSE check_invariants_from(ls, i + 1, main_locales \cup {ls[i].main})

check_invariants(ls) == check_invariants_from(ls, 1, {})

\* mandatory_locale_for taking every main locale as mandatory
mandatory_locale_for_main(ls, locale_entry) == locale_entry.main

RECURSIVE mandatory_locale_for(_, _)
mandatory_locale_for(ls, locale_entry) ==
    IF locale_entry.fallback = None THEN locale_entry.main
    ELSE LET fallback == locale_entry.fallback[1]
             found == find_with_main_locale(ls, fallback)
         IN  IF found = None THEN fallback
             ELSE mandatory_locale_for(ls, found[1])

mandatory_locales(ls) == {mandatory_locale_for(ls, ls[i]) : i \in DOMAIN ls}

all_locales(ls) ==
    UNION {IF ls[i].fallback = None THEN {ls[i].main}
           ELSE {ls[i].fallback[1], ls[i].main} : i \in DOMAIN ls}

main_locales(ls) == {ls[i].main : i \in DOMAIN ls}

\* locale_resolution_route, one loop iteration at a time
RouteIdle == [pc |-> "idle"]

\* route_begin also accepting a locale that is only a fallback target
route_begin_any(ls, locale) ==
    LET found == find_with_main_locale(ls, locale)
    IN  IF found # None
        THEN [pc |-> "loop", locale |-> locale,
              resolution |-> <<found[1].main>>,
              current_fallback |-> found[1].fallback]
        ELSE IF locale \in all_locales(ls)
        THEN [pc |-> "loop", locale |-> locale,
              resolution |-> <<locale>>, current_fallback |-> None]
        ELSE [pc |-> "done", locale |-> locale, result |-> None]

route_begin(ls, locale) ==
    LET found == find_with_main_locale(ls, locale)
    IN  IF found = None
        THEN [pc |-> "done", locale |-> locale, result |-> None]
        ELSE [pc |-> "loop", locale |-> locale,
              resolution |-> <<found[1].main>>,
              current_fallback |-> found[1].fallback]

\* route_iterate following one fallback only
route_iterate_once(ls, r) ==
    IF r.current_fallback = None
    THEN [pc |-> "done", locale |-> r.locale, result |-> Some(r.resolution)]
    ELSE [pc |-> "loop", locale |-> r.locale,
          resolution |-> Append(r.resolution, r.current_fallback[1]),
          current_fallback |-> None]

route_iterate(ls, r) ==
    IF r.current_fallback = None
    THEN [pc |-> "done", locale |-> r.locale, result |-> Some(r.resolution)]
    ELSE LET fallback == r.current_fallback[1]
             found == find_with_main_locale(ls, fallback)
         IN  [pc |-> "loop", locale |-> r.locale,
              resolution |-> Append(r.resolution, fallback),
              current_fallback |-> IF found = None THEN None ELSE found[1].fallback]

RECURSIVE route_run(_, _)
route_run(ls, r) == IF r.pc = "done" THEN r.result ELSE route_run(ls, route_iterate(ls, r))

locale_resolution_route(ls, locale) == route_run(ls, route_begin(ls, locale))

----------------------------------------------------------------------------
(* core/src/locales.rs: impl From<HashSet<LanguageIdentifier>> for Locales *)

\* unic_langid::LanguageIdentifier, by the subtags it is made of
LanguageIdentifier(language, script, region, variants) ==
    [language |-> language, script |-> script, region |-> region, variants |-> variants]

\* the locale directories a walk can have discovered
DiscoveredLocales ==
    {LanguageIdentifier("en", None, None, <<>>),
     LanguageIdentifier("en", None, Some("GB"), <<>>),
     LanguageIdentifier("en", None, None, <<"variant">>),
     LanguageIdentifier("en", None, Some("GB"), <<"variant">>),
     LanguageIdentifier("en", Some("Latn"), Some("GB"), <<>>),
     LanguageIdentifier("fr", None, Some("CA"), <<>>)}

\* Iterator::partition(|locale| locale.region.is_none()), in iteration order
partition_primary(iteration) == SelectSeq(iteration, LAMBDA locale : locale.region = None)
partition_secondary(iteration) == SelectSeq(iteration, LAMBDA locale : locale.region # None)

from_secondary_unchecked(primary_locales, secondary_locale) ==
    LocaleEntry(secondary_locale, Some([secondary_locale EXCEPT !.region = None]))

\* the closure mapped over secondary_locales
from_secondary(primary_locales, secondary_locale) ==
    LET stripped_locale == [secondary_locale EXCEPT !.region = None]
    IN  IF Contains(primary_locales, stripped_locale)
        THEN LocaleEntry(secondary_locale, Some(stripped_locale))
        ELSE LocaleEntry(secondary_locale, None)

\* iteration: the order in which the hash set yields its elements
from_hash_set(iteration) ==
    LET primary_locales == partition_primary(iteration)
        secondary_locales == partition_secondary(iteration)
    IN  [i \in 1..Len(secondary_locales) |->
            from_secondary(primary_locales, secondary_locales[i])]
        \o [i \in 1..Len(primary_locales) |-> LocaleEntry(primary_locales[i], None)]

----------------------------------------------------------------------------
(* Locale graph: construction and route queries *)

EmptyBuilder ==
    /\ fluent_resources = <<>>
    /\ global_unnamed_resources = <<>>
    /\ unnamed_resources = EmptyMap
    /\ named_resources = EmptyMap
    /\ phase = "builder"
    /\ resources = EmptyMap
    /\ build_errors = <<>>

ParseIdle == [pc |-> "idle"]
NoQuery == [op |-> "none"]

\* no directory is being parsed, no function is registered, no query was made
NoQueries ==
    /\ parse = ParseIdle
    /\ functions = {}
    /\ query = NoQuery

InitLocales ==
    /\ entries_in \in SeqsUpTo(LocaleEntries(LocaleIds), MaxEntries)
    /\ try_new = [kind |-> "pending"]
    /\ locales = <<>>
    /\ route = RouteIdle
    /\ EmptyBuilder
    /\ NoQueries

TryNew ==
    /\ try_new.kind = "pending"
    /\ try_new' = check_invariants(entries_in)
    /\ locales' = IF try_new'.kind = "Ok" THEN entries_in ELSE locales
    /\ UNCHANGED <<entries_in, route>>
    /\ UNCHANGED builder_vars
    /\ UNCHANGED query_vars

RouteStart(locale) ==
    /\ try_new.kind = "Ok"
    /\ route.pc \in {"idle", "done"}
    /\ route' = route_begin(locales, locale)
    /\ UNCHANGED <<entries_in, try_new, locales>>
    /\ UNCHANGED builder_vars
    /\ UNCHANGED query_vars

RouteStep ==
    /\ route.pc = "loop"
    /\ route' = route_iterate(locales, route)
    /\ UNCHANGED <<entries_in, try_new, locales>>
    /\ UNCHANGED builder_vars
    /\ UNCHANGED query_vars

NextLocales ==
    \/ TryNew
    \/ \E locale \in LocaleIds : RouteStart(locale)
    \/ RouteStep

SpecLocales == InitLocales /\ [][NextLocales]_vars

----------------------------------------------------------------------------
(* Paths: std::path as used by core/src/l10n.rs, relative paths only *)

Slash == "/"

\* Path::iter: the components of a path, empty ones dropped
RECURSIVE components_from(_, _, _, _)
components_from(path, i, current, acc) ==
    IF i > Len(path)
    THEN IF current = <<>> THEN acc ELSE Append(acc, current)
    ELSE IF path[i] = Slash
         THEN components_from(path, i + 1, <<>>,
                              IF current = <<>> THEN acc ELSE Append(acc, current))
    ELSE components_from(path, i + 1, Append(current, path[i]), acc)

path_iter(path) == components_from(path, 1, <<>>, <<>>)

RECURSIVE join_slash(_)
join_slash(components) ==
    IF components = <<>> THEN <<>>
    ELSE IF Len(components) = 1 THEN components[1]
    ELSE components[1] \o <<Slash>> \o join_slash(Tail(components))

normalized_path(path) == join_slash(path_iter(path))

\* Path::join with a relative argument
path_join(base, name) ==
    IF base = <<>> THEN name
    ELSE IF base[Len(base)] = Slash THEN base \o name
    ELSE base \o <<Slash>> \o name

\* Path::parent: None for the empty path
path_parent(path) ==
    LET components == path_iter(path)
    IN  IF components = <<>> THEN None ELSE Some(join_slash(Front(components)))

----------------------------------------------------------------------------
(* core/src/l10n.rs: L10nBuilder *)

EntryIds == {"T"}
Names == {<<"about">>}
RelativePaths == {<<>>, <<"n">>}

\* a parsed document: the entries it defines; a definition is identified by the
\* ordinal of its document, so that a resolved entry shows which document won
Documents(ordinal) == {EmptyMap} \cup {[id \in {"T"} |-> ordinal]}

resource_at(store, resource_index) == store[resource_index + 1]

\* the registration that takes the length of the store after the push
AddGlobalUnnamedResourceAfterPush(resource) ==
    /\ phase = "builder"
    /\ Len(fluent_resources) < MaxResources
    /\ fluent_resources' = Append(fluent_resources, resource)
    /\ global_unnamed_resources' = Append(global_unnamed_resources, Len(fluent_resources'))
    /\ UNCHANGED <<unnamed_resources, named_resources, phase, resources, build_errors>>
    /\ UNCHANGED locale_vars
    /\ UNCHANGED query_vars

AddGlobalUnnamedResource(resource) ==
    /\ phase = "builder"
    /\ Len(fluent_resources) < MaxResources
    /\ global_unnamed_resources' = Append(global_unnamed_resources, Len(fluent_resources))
    /\ fluent_resources' = Append(fluent_resources, resource)
    /\ UNCHANGED <<unnamed_resources, named_resources, phase, resources, build_errors>>
    /\ UNCHANGED locale_vars
    /\ UNCHANGED query_vars

AddUnnamedResource(relative_path, locale, fluent_resource) ==
    /\ phase = "builder"
    /\ Len(fluent_resources) < MaxResources
    /\ LET key == <<normalized_path(relative_path), locale>>
           present == IF key \in DOMAIN unnamed_resources
                      THEN unnamed_resources[key] ELSE <<>>
       IN  unnamed_resources' =
               [k \in DOMAIN unnamed_resources \cup {key} |->
                   IF k = key THEN Append(present, Len(fluent_resources))
                   ELSE unnamed_resources[k]]
    /\ fluent_resources' = Append(fluent_resources, fluent_resource)
    /\ UNCHANGED <<global_unnamed_resources, named_resources, phase, resources, build_errors>>
    /\ UNCHANGED locale_vars
    /\ UNCHANGED query_vars

\* the registration that overrides the document of an already registered pair
AddNamedResourceOverriding(name, relative_path, locale, fluent_resource) ==
    /\ phase = "builder"
    /\ Len(fluent_resources) < MaxResources
    /\ LET resource_name == normalized_path(path_join(relative_path, name))
           present == IF resource_name \in DOMAIN named_resources
                      THEN named_resources[resource_name] ELSE EmptyMap
       IN  named_resources' =
               [n \in DOMAIN named_resources \cup {resource_name} |->
                   IF n = resource_name
                   THEN [l \in DOMAIN present \cup {locale} |->
                            IF l = locale THEN Len(fluent_resources) ELSE present[l]]
                   ELSE named_resources[n]]
    /\ fluent_resources' = Append(fluent_resources, fluent_resource)
    /\ UNCHANGED <<global_unnamed_resources, unnamed_resources, phase, resources, build_errors>>
    /\ UNCHANGED locale_vars
    /\ UNCHANGED query_vars

AddNamedResource(name, relative_path, locale, fluent_resource) ==
    /\ phase = "builder"
    /\ Len(fluent_resources) < MaxResources
    /\ LET resource_name == normalized_path(path_join(relative_path, name))
           present == IF resource_name \in DOMAIN named_resources
                      THEN named_resources[resource_name] ELSE EmptyMap
       IN  IF locale \in DOMAIN present
           THEN \* unreachable!(): the call panics, nothing is registered
                /\ phase' = "panicked"
                /\ UNCHANGED <<fluent_resources, named_resources>>
           ELSE /\ named_resources' =
                       [n \in DOMAIN named_resources \cup {resource_name} |->
                           IF n = resource_name
                           THEN [l \in DOMAIN present \cup {locale} |->
                                    IF l = locale THEN Len(fluent_resources) ELSE present[l]]
                           ELSE named_resources[n]]
                /\ fluent_resources' = Append(fluent_resources, fluent_resource)
                /\ UNCHANGED phase
    /\ UNCHANGED <<global_unnamed_resources, unnamed_resources, resources, build_errors>>
    /\ UNCHANGED locale_vars
    /\ UNCHANGED query_vars

----------------------------------------------------------------------------
(* core/src/l10n.rs: L10n::new *)

global_unnamed_fluent_resources(global_unnamed, store) == global_unnamed

unnamed_fluent_resources(relative_path, locale, unnamed) ==
    LET key == <<normalized_path(relative_path), locale>>
    IN  IF key \in DOMAIN unnamed THEN unnamed[key] ELSE <<>>

named_fluent_resource(name, locale, named) ==
    IF name \in DOMAIN named /\ locale \in DOMAIN named[name]
    THEN Some(named[name][locale])
    ELSE None

\* FluentBundle::new_concurrent(locales)
new_bundle(bundle_locales) ==
    [locales |-> bundle_locales, resources |-> <<>>, entries |-> EmptyMap]

\* FluentBundle::add_resource_overriding: every entry of the document replaces
\* the entry of the same id
add_resource_overriding(bundle, resource_index, store) ==
    LET document == resource_at(store, resource_index)
    IN  [bundle EXCEPT
            !.resources = Append(@, resource_index),
            !.entries = [id \in DOMAIN @ \cup DOMAIN document |->
                            IF id \in DOMAIN document THEN resource_index ELSE @[id]]]

RECURSIVE add_all(_, _, _)
add_all(bundle, resource_indices, store) ==
    IF resource_indices = <<>> THEN bundle
    ELSE add_all(add_resource_overriding(bundle, Head(resource_indices), store),
                 Tail(resource_indices), store)

\* the `while let Some(path) = relative_path` loop, before the reverse
RECURSIVE parent_chain(_)
parent_chain(relative_path) ==
    IF relative_path = None THEN <<>>
    ELSE <<relative_path[1]>> \o parent_chain(path_parent(relative_path[1]))

relative_paths_of(name) == Reverse(parent_chain(path_parent(name)))

\* the locale loop run from the main locale to the terminal one
RECURSIVE add_unnamed_main_first(_, _, _, _, _)
add_unnamed_main_first(bundle, relative_path, route_locales, unnamed, store) ==
    IF route_locales = <<>> THEN bundle
    ELSE add_all(add_unnamed_main_first(bundle, relative_path, Tail(route_locales),
                                        unnamed, store),
                 unnamed_fluent_resources(relative_path, Head(route_locales), unnamed),
                 store)

\* for locale in &inverted_locales_resolution { unnamed_fluent_resources(..) }
RECURSIVE add_unnamed_for_locales(_, _, _, _, _)
add_unnamed_for_locales(bundle, relative_path, route_locales, unnamed, store) ==
    IF route_locales = <<>> THEN bundle
    ELSE add_unnamed_for_locales(
             add_all(bundle,
                     unnamed_fluent_resources(relative_path, Head(route_locales), unnamed),
                     store),
             relative_path, Tail(route_locales), unnamed, store)

\* the path loop looking up shared documents of the main locale only
RECURSIVE add_unnamed_main_only(_, _, _, _, _)
add_unnamed_main_only(bundle, relative_paths, route_locales, unnamed, store) ==
    IF relative_paths = <<>> THEN bundle
    ELSE add_unnamed_main_only(
             add_unnamed_for_locales(bundle, Head(relative_paths),
                                     <<route_locales[Len(route_locales)]>>, unnamed, store),
             Tail(relative_paths), route_locales, unnamed, store)

\* for relative_path in relative_paths { for locale in .. }
RECURSIVE add_unnamed_for_paths(_, _, _, _, _)
add_unnamed_for_paths(bundle, relative_paths, route_locales, unnamed, store) ==
    IF relative_paths = <<>> THEN bundle
    ELSE add_unnamed_for_paths(
             add_unnamed_for_locales(bundle, Head(relative_paths), route_locales,
                                     unnamed, store),
             Tail(relative_paths), route_locales, unnamed, store)

\* the named document of the main locale alone
add_named_main_only(bundle, name, route_locales, named, store) ==
    IF route_locales = <<>> THEN bundle
    ELSE add_all(bundle, named_fluent_resource(name, route_locales[Len(route_locales)], named),
                 store)

\* for locale in &inverted_locales_resolution { named_fluent_resource(..) }
RECURSIVE add_named_for_locales(_, _, _, _, _)
add_named_for_locales(bundle, name, route_locales, named, store) ==
    IF route_locales = <<>> THEN bundle
    ELSE add_named_for_locales(
             add_all(bundle, named_fluent_resource(name, Head(route_locales), named), store),
             name, Tail(route_locales), named, store)

\* the route left in main-to-terminal order
resolution_not_inverted(locales_resolution) == locales_resolution

inverted_resolution(locales_resolution) == Reverse(locales_resolution)

\* the bundle with the global documents layered last
build_bundle_global_last(name, locale, ls, global_unnamed, unnamed, named, store) ==
    LET locales_resolution == locale_resolution_route(ls, locale)[1]
        inverted_locales_resolution == inverted_resolution(locales_resolution)
        with_unnamed ==
            add_unnamed_for_paths(new_bundle(locales_resolution), relative_paths_of(name),
                                  inverted_locales_resolution, unnamed, store)
        with_named ==
            add_named_for_locales(with_unnamed, name, inverted_locales_resolution,
                                  named, store)
    IN  add_all(with_named, global_unnamed_fluent_resources(global_unnamed, store), store)

\* the body of `for locale in locales.main_locales()`
build_bundle(name, locale, ls, global_unnamed, unnamed, named, store) ==
    LET locales_resolution == locale_resolution_route(ls, locale)[1]
        inverted_locales_resolution == inverted_resolution(locales_resolution)
        with_global ==
            add_all(new_bundle(locales_resolution),
                    global_unnamed_fluent_resources(global_unnamed, store), store)
        with_unnamed ==
            add_unnamed_for_paths(with_global, relative_paths_of(name),
                                  inverted_locales_resolution, unnamed, store)
    IN  add_named_for_locales(with_unnamed, name, inverted_locales_resolution, named, store)

\* bundles made for the mains that have no fallback only
new_resources_of_roots(ls, global_unnamed, unnamed, named, store) ==
    [name \in DOMAIN named |->
        [locale \in {ls[i].main : i \in {j \in DOMAIN ls : ls[j].fallback = None}} |->
            build_bundle(name, locale, ls, global_unnamed, unnamed, named, store)]]

new_resources(ls, global_unnamed, unnamed, named, store) ==
    [name \in DOMAIN named |->
        [locale \in main_locales(ls) |->
            build_bundle(name, locale, ls, global_unnamed, unnamed, named, store)]]

MissingResource(resource, missing) ==
    [kind |-> "MissingResource", resource |-> resource, locales |-> missing]

missing_locales_of(name, mandatory, named) ==
    LET Missing(locale) == named_fluent_resource(name, locale, named) = None
    IN  SelectSeq(mandatory, Missing)

\* the consistency check stopping at the first incomplete catalog
RECURSIVE check_named_resources_fail_fast(_, _, _)
check_named_resources_fail_fast(names, mandatory, named) ==
    IF names = <<>> THEN <<>>
    ELSE LET missing == missing_locales_of(Head(names), mandatory[Head(names)], named)
         IN  IF missing # <<>>
             THEN <<MissingResource(Head(names), missing)>>
             ELSE check_named_resources_fail_fast(Tail(names), mandatory, named)

\* names: named_resources.keys() in the order the table yields them;
\* mandatory: for every name, mandatory_locales() in the order that set yields them
RECURSIVE check_named_resources_consistency(_, _, _)
check_named_resources_consistency(names, mandatory, named) ==
    IF names = <<>> THEN <<>>
    ELSE LET missing == missing_locales_of(Head(names), mandatory[Head(names)], named)
             rest == check_named_resources_consistency(Tail(names), mandatory, named)
         IN  IF missing # <<>>
             THEN <<MissingResource(Head(names), missing)>> \o rest
             ELSE rest

Build ==
    /\ phase = "builder"
    /\ \E names \in Enumerations(DOMAIN named_resources) :
       \E mandatory \in [DOMAIN named_resources -> Enumerations(mandatory_locales(locales))] :
          LET errors == check_named_resources_consistency(names, mandatory, named_resources)
          IN  IF errors # <<>>
              THEN /\ phase' = "build_failed"
                   /\ build_errors' = errors
                   /\ UNCHANGED resources
              ELSE /\ phase' = "built"
                   /\ resources' = new_resources(locales, global_unnamed_resources,
                                                 unnamed_resources, named_resources,
                                                 fluent_resources)
                   /\ UNCHANGED build_errors
    /\ UNCHANGED <<fluent_resources, global_unnamed_resources, unnamed_resources,
                   named_resources>>
    /\ UNCHANGED locale_vars
    /\ UNCHANGED query_vars

ValidGraphs ==
    {ls \in SeqsUpTo(LocaleEntries(BuilderLocaleIds), MaxBuilderEntries) :
        check_invariants(ls).kind = "Ok"}

\* L10nBuilder::new(locales) on a graph accepted by Locales::try_new
Init ==
    /\ entries_in \in ValidGraphs
    /\ try_new = [kind |-> "Ok"]
    /\ locales = entries_in
    /\ route = RouteIdle
    /\ EmptyBuilder
    /\ NoQueries

Next ==
    \/ \E resource \in Documents(Len(fluent_resources)) :
          AddGlobalUnnamedResource(resource)
    \/ \E relative_path \in RelativePaths, locale \in BuilderLocaleIds,
          resource \in Documents(Len(fluent_resources)) :
          AddUnnamedResource(relative_path, locale, resource)
    \/ \E name \in Names, relative_path \in RelativePaths, locale \in BuilderLocaleIds,
          resource \in Documents(Len(fluent_resources)) :
          AddNamedResource(name, relative_path, locale, resource)
    \/ Build

Spec == Init /\ [][Next]_vars

----------------------------------------------------------------------------
(* core/src/l10n.rs: L10nBuilder, registrations whose paths need normalising *)

RegisterNames == {<<"about">>, <<"n", "/", "about">>}
RegisterPaths == {<<>>, <<"n">>, <<"n", "/">>}

\* L10nBuilder::new(locales) on a one-locale graph
InitRegister ==
    /\ entries_in = <<LocaleEntry("en", None)>>
    /\ try_new = [kind |-> "Ok"]
    /\ locales = entries_in
    /\ route = RouteIdle
    /\ EmptyBuilder
    /\ NoQueries

NextRegister ==
    \/ \E resource \in Documents(Len(fluent_resources)) :
          AddGlobalUnnamedResource(resource)
    \/ \E relative_path \in RegisterPaths, locale \in BuilderLocaleIds,
          resource \in Documents(Len(fluent_resources)) :
          AddUnnamedResource(relative_path, locale, resource)
    \/ \E name \in RegisterNames, relative_path \in RegisterPaths, locale \in BuilderLocaleIds,
          resource \in Documents(Len(fluent_resources)) :
          AddNamedResource(name, relative_path, locale, resource)

SpecRegister == InitRegister /\ [][NextRegister]_vars

----------------------------------------------------------------------------
(* core/src/l10n.rs: L10nBuilder::parse without an explicit locale graph *)

\* parse(path, None) after its directory walk: the builder is the default one,
\* the discovered locale directories hold no document
InitDerive ==
    /\ entries_in = <<>>
    /\ try_new = [kind |-> "pending"]
    /\ locales = <<>>
    /\ route = RouteIdle
    /\ EmptyBuilder
    /\ parse \in {[pc |-> "walked", locales_option |-> None, locales_visited |-> visited] :
                     visited \in SUBSET DiscoveredLocales}
    /\ functions = {}
    /\ query = NoQuery

\* builder.locales = locales_option.unwrap_or_else(|| Locales::from(locales_visited))
ParseReturn ==
    /\ parse.pc = "walked"
    /\ parse.locales_option = None
    /\ \E iteration \in Enumerations(parse.locales_visited) :
          locales' = from_hash_set(iteration)
    /\ parse' = [parse EXCEPT !.pc = "returned"]
    /\ UNCHANGED <<entries_in, try_new, route, functions, query>>
    /\ UNCHANGED builder_vars

\* build() on the builder that parse returned
ParsedBuild == parse.pc = "returned" /\ Build

NextDerive ==
    \/ ParseReturn
    \/ ParsedBuild

SpecDerive == InitDerive /\ [][NextDerive]_vars

----------------------------------------------------------------------------
(* fluent_syntax::ast, as matched by core/src/resource.rs and core/src/l10n.rs *)
(* Identifiers of entries and attributes are strings (sequences of tokens),   *)
(* names of variables and functions are single tokens.                        *)

TextElement(value) == [type |-> "TextElement", value |-> value]
Placeable(expression) == [type |-> "Placeable", expression |-> expression]
Inline(inline) == [type |-> "Inline", inline |-> inline]
Select(selector, variants) ==
    [type |-> "Select", selector |-> selector, variants |-> variants]
Variant(key, value, default) == [key |-> key, value |-> value, default |-> default]
StringLiteral(value) == [type |-> "StringLiteral", value |-> value]
VariableReference(id) == [type |-> "VariableReference", id |-> id]
NamedArgument(name, value) == [name |-> name, value |-> value]
FunctionReference(id, positional, named) ==
    [type |-> "FunctionReference", id |-> id, positional |-> positional, named |-> named]
MessageReference(id, attribute) ==
    [type |-> "MessageReference", id |-> id, attribute |-> attribute]
TermReference(id, attribute, named) ==
    [type |-> "TermReference", id |-> id, attribute |-> attribute, named |-> named]
InlinePlaceable(expression) == [type |-> "InlinePlaceable", expression |-> expression]
Attribute(id, value) == [id |-> id, value |-> value]
Message(value, attributes) == [kind |-> "Message", value |-> value, attributes |-> attributes]
Term(value, attributes) == [kind |-> "Term", value |-> value, attributes |-> attributes]

\* { inline }
Put(inline) == Placeable(Inline(inline))
\* { $id }
PutVariable(id) == Put(VariableReference(id))

\* hello = Hello { $name }
\*     .title = { $title }
\* label =
\*     .title = Title
\* items = { $count -> [one] { $item } *[other] { $items } }
\* greet = { hello } { $extra }
\* chain = { greet } { $more }
\* about = { -brand } { $user }
\* -brand = Brand { $inner }
\* price = { OUTER(INNER($amount), unit: $unit) }
\* nested = { { UPPER($text) } }
\* broken = { missing }
\* loop = { loop }
DocumentA ==
    (<<"hello">> :> Message(Some(<<TextElement("Hello"), PutVariable("name")>>),
                            <<Attribute(<<"title">>, <<PutVariable("title")>>)>>))
    @@ (<<"label">> :> Message(None, <<Attribute(<<"title">>, <<TextElement("Title")>>)>>))
    @@ (<<"items">> :> Message(Some(<<Placeable(Select(VariableReference("count"),
                <<Variant("one", <<PutVariable("item")>>, FALSE),
                  Variant("other", <<PutVariable("items")>>, TRUE)>>))>>), <<>>))
    @@ (<<"greet">> :> Message(Some(<<Put(MessageReference(<<"hello">>, None)),
                                      PutVariable("extra")>>), <<>>))
    @@ (<<"chain">> :> Message(Some(<<Put(MessageReference(<<"greet">>, None)),
                                      PutVariable("more")>>), <<>>))
    @@ (<<"about">> :> Message(Some(<<Put(TermReference(<<"brand">>, None, <<>>)),
                                      PutVariable("user")>>), <<>>))
    @@ (<<"brand">> :> Term(<<TextElement("Brand"), PutVariable("inner")>>, <<>>))
    @@ (<<"price">> :> Message(Some(<<Put(FunctionReference("OUTER",
                <<FunctionReference("INNER", <<VariableReference("amount")>>, <<>>)>>,
                <<NamedArgument("unit", VariableReference("unit"))>>))>>), <<>>))
    @@ (<<"nested">> :> Message(Some(<<Put(InlinePlaceable(Inline(
                FunctionReference("UPPER", <<VariableReference("text")>>, <<>>))))>>), <<>>))
    @@ (<<"broken">> :> Message(Some(<<Put(MessageReference(<<"missing">>, None))>>), <<>>))
    @@ (<<"loop">> :> Message(Some(<<Put(MessageReference(<<"loop">>, None))>>), <<>>))

\* hello = Bonjour { $nom }
\* label = Etiquette
\* items = { $count } { $items }
\* greet = { hello.title }
\* chain = { hello } { $plus }
\* about = { $user }
\* price = { OUTER($amount) }
\* nested = { $text }
\* broken = Casse
DocumentB ==
    (<<"hello">> :> Message(Some(<<TextElement("Bonjour"), PutVariable("nom")>>), <<>>))
    @@ (<<"label">> :> Message(Some(<<TextElement("Etiquette")>>), <<>>))
    @@ (<<"items">> :> Message(Some(<<PutVariable("count"), PutVariable("items")>>), <<>>))
    @@ (<<"greet">> :> Message(Some(<<Put(MessageReference(<<"hello">>,
                                                           Some(<<"title">>)))>>), <<>>))
    @@ (<<"chain">> :> Message(Some(<<Put(MessageReference(<<"hello">>, None)),
                                      PutVariable("plus")>>), <<>>))
    @@ (<<"about">> :> Message(Some(<<PutVariable("user")>>), <<>>))
    @@ (<<"price">> :> Message(Some(<<Put(FunctionReference("OUTER",
                <<VariableReference("amount")>>, <<>>))>>), <<>>))
    @@ (<<"nested">> :> Message(Some(<<PutVariable("text")>>), <<>>))
    @@ (<<"broken">> :> Message(Some(<<TextElement("Casse")>>), <<>>))

\* hello = Hi { $name } { $nick }
\* -brand = { SHOUT($inner) }
DocumentC ==
    (<<"hello">> :> Message(Some(<<TextElement("Hi"), PutVariable("name"),
                                   PutVariable("nick")>>), <<>>))
    @@ (<<"brand">> :> Term(<<Put(FunctionReference("SHOUT",
                <<VariableReference("inner")>>, <<>>))>>, <<>>))

----------------------------------------------------------------------------
(* fluent_bundle::FluentBundle: lookups and formatting, as core/src/resource.rs *)
(* calls them                                                                 *)

get_entry(bundle, store, id) ==
    IF id \in DOMAIN bundle.entries
    THEN Some(resource_at(store, bundle.entries[id])[id])
    ELSE None

\* FluentBundle::get_message: an entry of that id that is a message
get_message(bundle, store, id) ==
    LET entry == get_entry(bundle, store, id)
    IN  IF entry # None /\ entry[1].kind = "Message" THEN entry ELSE None

get_term(bundle, store, id) ==
    LET entry == get_entry(bundle, store, id)
    IN  IF entry # None /\ entry[1].kind = "Term" THEN entry ELSE None

\* FluentMessage::get_attribute: the first attribute of that name
get_attribute(message, attribute) ==
    LET found == SelectSeq(message.attributes, LAMBDA a : a.id = attribute)
    IN  IF found = <<>> THEN None ELSE Some(found[1].value)

ResolverError(kind, id) == [kind |-> kind, id |-> id]
Resolved(value, errors) == [value |-> value, errors |-> errors]
Unresolved(error) == Resolved(<<"{?}">>, <<error>>)

\* the scope of one format_pattern call; travelled holds the patterns being resolved
Scope(bundle, store, fns, args) ==
    [bundle |-> bundle, store |-> store, functions |-> fns, args |-> args,
     local_args |-> None, travelled |-> {}]

\* what two parts written one after the other leave in the writer and in the errors
written(first, rest) == Resolved(first.value \o rest.value, first.errors \o rest.errors)

\* a part written after errors were already pushed
after_errors(errors, resolved) == Resolved(resolved.value, errors \o resolved.errors)

\* the variant whose key the selector's value matches, else the default one
select_variant(selector, variants) ==
    LET matching == SelectSeq(variants,
                              LAMBDA v : selector.errors = <<>> /\ selector.value = <<v.key>>)
        default == SelectSeq(variants, LAMBDA v : v.default)
    IN  IF matching # <<>> THEN Some(matching[1])
        ELSE IF default # <<>> THEN Some(default[1]) ELSE None

\* the call of a function of the bundle on its resolved arguments
call_function(scope, id, positional, named) ==
    IF id \in scope.functions
    THEN Resolved(<<id, "(">> \o positional.value \o named.value \o <<")">>,
                  positional.errors \o named.errors)
    ELSE Resolved(<<"{?}">>,
                  positional.errors \o named.errors \o <<ResolverError("Reference", id)>>)

RECURSIVE resolve_pattern(_, _), resolve_expression(_, _), resolve_inline(_, _),
          resolve_inlines(_, _), resolve_named(_, _), resolve_tracked(_, _),
          resolve_variant(_, _, _)

resolve_pattern(scope, pattern) ==
    IF pattern = <<>> THEN Resolved(<<>>, <<>>)
    ELSE written(IF pattern[1].type = "TextElement"
                 THEN Resolved(<<pattern[1].value>>, <<>>)
                 ELSE resolve_expression(scope, pattern[1].expression),
                 resolve_pattern(scope, Tail(pattern)))

\* Scope::track: a pattern met again while it is being resolved is a cycle
resolve_tracked(scope, pattern) ==
    IF pattern \in scope.travelled
    THEN Unresolved(ResolverError("Cyclic", <<>>))
    ELSE resolve_pattern([scope EXCEPT !.travelled = @ \cup {pattern}], pattern)

resolve_inlines(scope, inlines) ==
    IF inlines = <<>> THEN Resolved(<<>>, <<>>)
    ELSE written(resolve_inline(scope, inlines[1]), resolve_inlines(scope, Tail(inlines)))

resolve_named(scope, named) ==
    resolve_inlines(scope, [i \in 1..Len(named) |-> named[i].value])

resolve_expression(scope, expression) ==
    IF expression.type = "Inline" THEN resolve_inline(scope, expression.inline)
    ELSE resolve_variant(scope, resolve_inline(scope, expression.selector),
                         expression.variants)

\* the select expression once its selector is resolved
resolve_variant(scope, selector, variants) ==
    LET chosen == select_variant(selector, variants)
    IN  IF chosen = None
        THEN Resolved(<<"{?}">>, selector.errors \o <<ResolverError("MissingDefault", <<>>)>>)
        ELSE after_errors(selector.errors, resolve_pattern(scope, chosen[1].value))

resolve_inline(scope, inline) ==
    CASE inline.type = "StringLiteral" -> Resolved(<<inline.value>>, <<>>)
      [] inline.type = "VariableReference" ->
            LET args == IF scope.local_args # None THEN scope.local_args[1] ELSE scope.args
            IN  IF inline.id \in DOMAIN args THEN Resolved(<<args[inline.id]>>, <<>>)
                ELSE IF scope.local_args # None THEN Resolved(<<"{?}">>, <<>>)
                ELSE Unresolved(ResolverError("Reference", inline.id))
      [] inline.type = "MessageReference" ->
            LET message == get_message(scope.bundle, scope.store, inline.id)
                pattern == IF message = None THEN None
                           ELSE IF inline.attribute # None
                           THEN get_attribute(message[1], inline.attribute[1])
                           ELSE message[1].value
            IN  IF pattern = None THEN Unresolved(ResolverError("Reference", inline.id))
                ELSE resolve_tracked(scope, pattern[1])
      [] inline.type = "TermReference" ->
            LET term == get_term(scope.bundle, scope.store, inline.id)
                pattern == IF term = None THEN None
                           ELSE IF inline.attribute # None
                           THEN get_attribute(term[1], inline.attribute[1])
                           ELSE Some(term[1].value)
                local == [n \in {inline.named[i].name : i \in DOMAIN inline.named} |->
                             LET i == CHOOSE i \in DOMAIN inline.named :
                                         inline.named[i].name = n
                             IN  resolve_inline(scope, inline.named[i].value).value[1]]
            IN  IF pattern = None THEN Unresolved(ResolverError("Reference", inline.id))
                ELSE after_errors(resolve_named(scope, inline.named).errors,
                                  resolve_tracked([scope EXCEPT !.local_args = Some(local)],
                                                  pattern[1]))
      [] inline.type = "FunctionReference" ->
            call_function(scope, inline.id, resolve_inlines(scope, inline.positional),
                          resolve_named(scope, inline.named))
      [] inline.type = "InlinePlaceable" -> resolve_expression(scope, inline.expression)

\* FluentBundle::format_pattern(pattern, args, &mut errors)
format_pattern(bundle, store, fns, pattern, args) ==
    resolve_tracked(Scope(bundle, store, fns, IF args = None THEN EmptyMap ELSE args[1]),
                    pattern)

----------------------------------------------------------------------------
(* core/src/resource.rs: L10nResource::translate, core/src/l10n.rs: queries *)

Ok(value) == [kind |-> "Ok", value |-> value]
Err(error) == [kind |-> "Err", error |-> error]

ResourceNotExists(resource) == [type |-> "ResourceNotExists", resource |-> resource]
LocaleNotSupported(locale) == [type |-> "LocaleNotSupported", locale |-> locale]
MessageIdNotExists(id, locale) == [type |-> "MessageIdNotExists", id |-> id, locale |-> locale]
MessageAttributeNotExists(attribute, id, locale) ==
    [type |-> "MessageAttributeNotExists", attribute |-> attribute, id |-> id,
     locale |-> locale]
MessageIdValueNotExists(id, locale) ==
    [type |-> "MessageIdValueNotExists", id |-> id, locale |-> locale]
FormatErrors(errors) == [type |-> "FormatErrors", errors |-> errors]

\* ParseVariables::locale: self.locales.first().cloned().unwrap_or_default()
bundle_locale(bundle) == IF bundle.locales = <<>> THEN "und" ELSE bundle.locales[1]

RECURSIVE find_dot(_, _)
find_dot(key, i) ==
    IF i > Len(key) THEN 0 ELSE IF key[i] = "." THEN i ELSE find_dot(key, i + 1)

\* str::split_once('.')
split_once(key) ==
    LET at == find_dot(key, 1)
    IN  IF at = 0 THEN None
        ELSE Some(<<SubSeq(key, 1, at - 1), SubSeq(key, at + 1, Len(key))>>)

\* (message_id, message_attribute_option)
split_key(key) ==
    LET parts == split_once(key)
    IN  IF parts = None THEN [message_id |-> key, attribute |-> None]
        ELSE [message_id |-> parts[1][1], attribute |-> Some(parts[1][2])]

\* the pattern selection that falls back to the value when the attribute is absent
message_pattern_value_fallback(message, message_id, attribute_option, locale) ==
    IF attribute_option # None /\ get_attribute(message, attribute_option[1]) # None
    THEN Ok(get_attribute(message, attribute_option[1])[1])
    ELSE IF message.value # None THEN Ok(message.value[1])
    ELSE Err(MessageIdValueNotExists(message_id, locale))

\* `let pattern = match message_attribute_option { ... }`
message_pattern(message, message_id, attribute_option, locale) ==
    IF attribute_option # None
    THEN LET attr == get_attribute(message, attribute_option[1])
         IN  IF attr # None THEN Ok(attr[1])
             ELSE Err(MessageAttributeNotExists(attribute_option[1], message_id, locale))
    ELSE IF message.value # None THEN Ok(message.value[1])
    ELSE Err(MessageIdValueNotExists(message_id, locale))

\* `if !errors.is_empty() { return Err(FormatErrors(errors)) } Ok(translation)`
translation_result(translation) ==
    IF translation.errors # <<>> THEN Err(FormatErrors(translation.errors))
    ELSE Ok(translation.value)

\* L10nResource::translate; bundles: locale -> bundle
translate(bundles, store, fns, locale, key, args) ==
    IF locale \notin DOMAIN bundles THEN Err(LocaleNotSupported(locale))
    ELSE LET bundle == bundles[locale]
             split == split_key(key)
             message == get_message(bundle, store, split.message_id)
         IN  IF message = None
             THEN Err(MessageIdNotExists(split.message_id, bundle_locale(bundle)))
             ELSE LET pattern == message_pattern(message[1], split.message_id,
                                                 split.attribute, bundle_locale(bundle))
                  IN  IF pattern.kind = "Err" THEN pattern
                      ELSE translation_result(format_pattern(bundle, store, fns,
                                                             pattern.value, args))

\* L10n::try_translate_with_args
try_translate_with_args(lang, resource, key, args) ==
    IF resource \notin DOMAIN resources THEN Err(ResourceNotExists(resource))
    ELSE translate(resources[resource], fluent_resources, functions, lang, key, args)

\* the subtags of the locale identifiers in use (LanguageIdentifier::from_str)
langid(locale) ==
    CASE locale = "en" -> LanguageIdentifier("en", None, None, <<>>)
      [] locale = "en-GB" -> LanguageIdentifier("en", None, Some("GB"), <<>>)
      [] locale = "fr" -> LanguageIdentifier("fr", None, None, <<>>)
      [] OTHER -> LanguageIdentifier("und", None, None, <<>>)

\* the subtags in use, in ascending order
SubtagsAscending == <<"GB", "en", "fr", "und">>

subtag_less(a, b) ==
    \E i, j \in DOMAIN SubtagsAscending :
        SubtagsAscending[i] = a /\ SubtagsAscending[j] = b /\ i < j

\* Ord of Option<subtag>: None first
option_less(a, b) ==
    \/ a = None /\ b # None
    \/ a # None /\ b # None /\ subtag_less(a[1], b[1])

\* the derived Ord of LanguageIdentifier: field by field
locale_less(x, y) ==
    LET a == langid(x)
        b == langid(y)
    IN  \/ subtag_less(a.language, b.language)
        \/ a.language = b.language /\ option_less(a.script, b.script)
        \/ a.language = b.language /\ a.script = b.script /\ option_less(a.region, b.region)
        \/ a.language = b.language /\ a.script = b.script /\ a.region = b.region
           /\ option_less(a.variants, b.variants)

\* the bundles left in the order the table yields them
sort_by_key_unsorted(bundles) == bundles

RECURSIVE insert_by_key(_, _)
insert_by_key(sorted, bundle) ==
    IF sorted = <<>> THEN <<bundle>>
    ELSE IF locale_less(bundle_locale(bundle), bundle_locale(sorted[1]))
    THEN <<bundle>> \o sorted
    ELSE <<sorted[1]>> \o insert_by_key(Tail(sorted), bundle)

\* bundles.sort_by_key(|b| b.locale()), a stable sort
RECURSIVE sort_by_key(_)
sort_by_key(bundles) ==
    IF bundles = <<>> THEN <<>>
    ELSE insert_by_key(sort_by_key(Front(bundles)), bundles[Len(bundles)])

\* the recursion through message references is as deep as the stack allows
MaxReferenceDepth == 4
StackOverflow == [kind |-> "StackOverflow"]

\* ParseVariables::get_pattern; self: [bundle, store]
get_pattern(self, id, attribute) ==
    LET message == get_message(self.bundle, self.store, id)
    IN  IF message = None THEN Err(MessageIdNotExists(id, bundle_locale(self.bundle)))
        ELSE message_pattern(message[1], id, attribute, bundle_locale(self.bundle))

RECURSIVE parse_pattern_variables(_, _, _, _), parse_elements_variables(_, _, _, _, _),
          parse_expression_variables(_, _, _, _), parse_variants_variables(_, _, _, _, _),
          parse_inline_expression_variables(_, _, _, _),
          parse_arguments_variables(_, _, _, _, _)

\* `for element in &pattern.elements`, from element i on
parse_elements_variables(self, pattern, i, variables, depth) ==
    IF i > Len(pattern) THEN Ok(variables)
    ELSE IF pattern[i].type = "Placeable"
    THEN LET parsed == parse_expression_variables(self, pattern[i].expression,
                                                  variables, depth)
         IN  IF parsed.kind # "Ok" THEN parsed
             ELSE parse_elements_variables(self, pattern, i + 1, parsed.value, depth)
    ELSE parse_elements_variables(self, pattern, i + 1, variables, depth)

parse_pattern_variables(self, pattern, variables, depth) ==
    parse_elements_variables(self, pattern, 1, variables, depth)

\* `for variant in variants`, from variant i on
parse_variants_variables(self, variants, i, variables, depth) ==
    IF i > Len(variants) THEN Ok(variables)
    ELSE LET parsed == parse_pattern_variables(self, variants[i].value, variables, depth)
         IN  IF parsed.kind # "Ok" THEN parsed
             ELSE parse_variants_variables(self, variants, i + 1, parsed.value, depth)

\* the select expression traversed by its selector only
parse_expression_variables_selector_only(self, expression, variables, depth) ==
    IF expression.type = "Select"
    THEN parse_inline_expression_variables(self, expression.selector, variables, depth)
    ELSE parse_inline_expression_variables(self, expression.inline, variables, depth)

parse_expression_variables(self, expression, variables, depth) ==
    IF expression.type = "Select"
    THEN LET parsed == parse_inline_expression_variables(self, expression.selector,
                                                         variables, depth)
         IN  IF parsed.kind # "Ok" THEN parsed
             ELSE parse_variants_variables(self, expression.variants, 1,
                                           parsed.value, depth)
    ELSE parse_inline_expression_variables(self, expression.inline, variables, depth)

\* `for positional_argument in ..` / `for named_argument in ..`, from argument i on
parse_arguments_variables(self, arguments, i, variables, depth) ==
    IF i > Len(arguments) THEN Ok(variables)
    ELSE LET parsed == parse_inline_expression_variables(self, arguments[i],
                                                         variables, depth)
         IN  IF parsed.kind # "Ok" THEN parsed
             ELSE parse_arguments_variables(self, arguments, i + 1, parsed.value, depth)

\* the traversal that does not follow message references
parse_inline_expression_variables_local(self, inline, variables, depth) ==
    CASE inline.type = "VariableReference" -> Ok(variables \cup {inline.id})
      [] inline.type = "FunctionReference" ->
            parse_arguments_variables(self,
                inline.positional \o [i \in 1..Len(inline.named) |-> inline.named[i].value],
                1, variables, depth)
      [] inline.type = "InlinePlaceable" ->
            parse_expression_variables(self, inline.expression, variables, depth)
      [] OTHER -> Ok(variables)

parse_inline_expression_variables(self, inline, variables, depth) ==
    CASE inline.type = "VariableReference" -> Ok(variables \cup {inline.id})
      [] inline.type = "FunctionReference" ->
            parse_arguments_variables(self,
                inline.positional \o [i \in 1..Len(inline.named) |-> inline.named[i].value],
                1, variables, depth)
      [] inline.type = "MessageReference" ->
            IF depth >= MaxReferenceDepth THEN StackOverflow
            ELSE LET pattern == get_pattern(self, inline.id,
                                            IF inline.attribute = None THEN None
                                            ELSE Some(inline.attribute[1]))
                 IN  IF pattern.kind = "Err" THEN pattern
                     ELSE parse_pattern_variables(self, pattern.value, variables, depth + 1)
      [] inline.type = "InlinePlaceable" ->
            parse_expression_variables(self, inline.expression, variables, depth)
      [] OTHER -> Ok(variables)

\* the loop that stops after the bundle examined first
required_variables_first_bundle(bundles, store, i, split, variables) ==
    IF i > Len(bundles) THEN Ok(variables)
    ELSE LET self == [bundle |-> bundles[i], store |-> store]
             pattern == get_pattern(self, split.message_id, split.attribute)
         IN  IF pattern.kind = "Err" THEN pattern
             ELSE parse_pattern_variables(self, pattern.value, variables, 0)

\* `for bundle in bundles`, from bundle i on, `variables` being shared by all
RECURSIVE required_variables_from(_, _, _, _, _)
required_variables_from(bundles, store, i, split, variables) ==
    IF i > Len(bundles) THEN Ok(variables)
    ELSE LET self == [bundle |-> bundles[i], store |-> store]
             pattern == get_pattern(self, split.message_id, split.attribute)
         IN  IF pattern.kind = "Err" THEN pattern
             ELSE LET parsed == parse_pattern_variables(self, pattern.value, variables, 0)
                  IN  IF parsed.kind # "Ok" THEN parsed
                      ELSE required_variables_from(bundles, store, i + 1, split,
                                                   parsed.value)

\* L10nResource::required_variables; values: self.bundles.values() as yielded
resource_required_variables(values, store, key) ==
    required_variables_from(sort_by_key(values), store, 1, split_key(key), {})

\* L10n::required_variables; iteration: the order in which the bundle table of
\* the catalog yields its locales
required_variables(resource, key, iteration) ==
    IF resource \notin DOMAIN resources THEN Err(ResourceNotExists(resource))
    ELSE resource_required_variables(
             [i \in DOMAIN iteration |-> resources[resource][iteration[i]]],
             fluent_resources, key)

RECURSIVE parse_pattern_functions(_), parse_expression_functions(_)

parse_inline_expression_functions(inline) ==
    IF inline.type = "FunctionReference" THEN {inline.id} ELSE {}

parse_expression_functions(expression) ==
    IF expression.type = "Select"
    THEN parse_inline_expression_functions(expression.selector)
         \cup UNION {parse_pattern_functions(expression.variants[i].value) :
                        i \in DOMAIN expression.variants}
    ELSE parse_inline_expression_functions(expression.inline)

parse_pattern_functions(pattern) ==
    UNION {IF pattern[i].type = "Placeable"
           THEN parse_expression_functions(pattern[i].expression)
           ELSE {} : i \in DOMAIN pattern}

\* the two arms of `match entry`
entry_functions(entry) ==
    LET of_attributes == UNION {parse_pattern_functions(entry.attributes[i].value) :
                                   i \in DOMAIN entry.attributes}
    IN  IF entry.kind = "Message"
        THEN (IF entry.value # None THEN parse_pattern_functions(entry.value[1]) ELSE {})
             \cup of_attributes
        ELSE parse_pattern_functions(entry.value) \cup of_attributes

\* `for entry in resource.entries()`
resource_functions(resource) ==
    UNION {entry_functions(resource[id]) : id \in DOMAIN resource}

\* L10n::required_functions: over every document the engine owns
required_functions ==
    UNION {resource_functions(fluent_resources[r]) : r \in DOMAIN fluent_resources}

----------------------------------------------------------------------------
(* core/src/lib.rs, core/src/message.rs, core/src/l10n_message.rs *)

UNEXPECTED_MESSAGE == <<"Unexpected message">>

\* the merge in which the arguments bound to the message are inserted last
merge_args_bound_last(local_args, overriding_args) ==
    [k \in DOMAIN local_args \cup DOMAIN overriding_args |->
        IF k \in DOMAIN local_args THEN local_args[k] ELSE overriding_args[k]]

\* the overriding arguments are inserted last
merge_args(local_args, overriding_args) ==
    [k \in DOMAIN local_args \cup DOMAIN overriding_args |->
        IF k \in DOMAIN overriding_args THEN overriding_args[k] ELSE local_args[k]]

\* Message::new
NewMessage(resource, key, args) == [resource |-> resource, key |-> key, args |-> args]

Message_try_translate_with_args(self, lang, args) ==
    IF self.args # None /\ args # None
    THEN try_translate_with_args(lang, self.resource, self.key,
                                 Some(merge_args(self.args[1], args[1])))
    ELSE try_translate_with_args(lang, self.resource, self.key,
                                 IF self.args # None THEN self.args ELSE args)

\* the failure shown to the caller as the name of its error
unwrap_or_error_name(result) ==
    IF result.kind = "Ok" THEN result.value ELSE <<result.error.type>>

\* .unwrap_or_else(|_| Cow::from(UNEXPECTED_MESSAGE))
unwrap_or_unexpected(result) ==
    IF result.kind = "Ok" THEN result.value ELSE UNEXPECTED_MESSAGE

Message_translate_with_args(self, lang, args) ==
    unwrap_or_unexpected(Message_try_translate_with_args(self, lang, args))

Message_translate(self, lang) ==
    unwrap_or_unexpected(Message_try_translate_with_args(self, lang, None))

----------------------------------------------------------------------------
(* core/src/l10n.rs: L10nBuilder::parse, the directory walk                 *)
(* A directory is the sequence of its entries in the order read_dir yields  *)
(* them; a file name is a sequence of tokens, "." before the extension.     *)

File(name, content) == [kind |-> "file", name |-> name, content |-> content]
Dir(name, entries) == [kind |-> "dir", name |-> name, entries |-> entries]

\* a source text that FluentResource::try_new rejects
InvalidSource == [syntax |-> "invalid"]

\* Path::extension and Path::file_stem: split at the last '.', a leading '.' apart
last_dot(name) ==
    LET dots == {i \in 2..Len(name) : name[i] = "."}
    IN  IF dots = {} THEN 0 ELSE CHOOSE i \in dots : \A j \in dots : j <= i

\* the stem of a file whatever its extension
get_entry_name_any_extension(entry) ==
    IF entry.kind = "dir" THEN Some(entry.name)
    ELSE LET dot == last_dot(entry.name)
         IN  IF dot # 0 THEN Some(SubSeq(entry.name, 1, dot - 1)) ELSE Some(entry.name)

get_entry_name(entry) ==
    IF entry.kind = "dir" THEN Some(entry.name)
    ELSE LET dot == last_dot(entry.name)
         IN  IF dot # 0 /\ SubSeq(entry.name, dot + 1, Len(entry.name)) = <<"ftl">>
             THEN Some(SubSeq(entry.name, 1, dot - 1))
             ELSE None

\* name.starts_with('_')
starts_with_underscore(name) == name # <<>> /\ name[1] = "_"

\* dir_name.parse::<LanguageIdentifier>(): language, then a region after '-' or '_'
parse_language_identifier(dir_name) ==
    LET spelled == {l \in LocaleIds :
                       IF langid(l).region = None THEN dir_name = <<langid(l).language>>
                       ELSE /\ Len(dir_name) = 3
                            /\ dir_name[1] = langid(l).language
                            /\ dir_name[2] \in {"-", "_"}
                            /\ dir_name[3] = langid(l).region[1]}
    IN  IF spelled = {} THEN None ELSE Some(CHOOSE l \in spelled : TRUE)

GlobalNamedResource(path) == [type |-> "GlobalNamedResource", path |-> path]
ParseLangDir(dir_name) == [type |-> "ParseLangDir", dir_name |-> dir_name]
MissingLocales(differences) == [type |-> "MissingLocales", locales |-> differences]
FluentParser == [type |-> "FluentParser"]

Walking == [kind |-> "walking"]
Panicked == [kind |-> "panicked"]

\* Self::default(), with the position of the walk: outcome is Walking until an
\* error is returned or a call panics
DefaultBuilder ==
    [fluent_resources |-> <<>>, global_unnamed_resources |-> <<>>,
     unnamed_resources |-> EmptyMap, named_resources |-> EmptyMap,
     locales_visited |-> {}, outcome |-> Walking]

add_global_unnamed_resource(builder, resource) ==
    [builder EXCEPT
        !.global_unnamed_resources = Append(@, Len(builder.fluent_resources)),
        !.fluent_resources = Append(@, resource)]

add_unnamed_resource(builder, relative_path, locale, fluent_resource) ==
    LET key == <<normalized_path(relative_path), locale>>
        present == IF key \in DOMAIN builder.unnamed_resources
                   THEN builder.unnamed_resources[key] ELSE <<>>
    IN  [builder EXCEPT
            !.unnamed_resources =
                [k \in DOMAIN @ \cup {key} |->
                    IF k = key THEN Append(present, Len(builder.fluent_resources)) ELSE @[k]],
            !.fluent_resources = Append(@, fluent_resource)]

add_named_resource(builder, name, relative_path, locale, fluent_resource) ==
    LET resource_name == normalized_path(path_join(relative_path, name))
        present == IF resource_name \in DOMAIN builder.named_resources
                   THEN builder.named_resources[resource_name] ELSE EmptyMap
    IN  IF locale \in DOMAIN present
        THEN [builder EXCEPT !.outcome = Panicked]
        ELSE [builder EXCEPT
                 !.named_resources =
                     [n \in DOMAIN @ \cup {resource_name} |->
                         IF n = resource_name
                         THEN [l \in DOMAIN present \cup {locale} |->
                                  IF l = locale THEN Len(builder.fluent_resources)
                                  ELSE present[l]]
                         ELSE @[n]],
                 !.fluent_resources = Append(@, fluent_resource)]

\* Self::read_fluent_resource
read_fluent_resource(entry) ==
    IF entry.content = InvalidSource THEN Err(FluentParser) ELSE Ok(entry.content)

RECURSIVE parse_locale_directory(_, _, _, _), parse_locale_entry(_, _, _, _)

\* the body of `for entry in fs::read_dir(&path)` in parse_locale_directory
parse_locale_entry(builder, locale, entry, relative_path) ==
    LET name == get_entry_name(entry)
        resource == read_fluent_resource(entry)
    IN  IF name = None THEN builder
        ELSE IF entry.kind = "file"
        THEN IF resource.kind = "Err" THEN [builder EXCEPT !.outcome = resource]
             ELSE IF starts_with_underscore(name[1])
             THEN add_unnamed_resource(builder, relative_path, locale, resource.value)
             ELSE add_named_resource(builder, name[1], relative_path, locale, resource.value)
        ELSE parse_locale_directory(builder, locale, entry.entries,
                                    path_join(relative_path, name[1]))

\* entries: what read_dir of locale_path.join(relative_path) has still to yield
parse_locale_directory(builder, locale, entries, relative_path) ==
    IF entries = <<>> \/ builder.outcome # Walking THEN builder
    ELSE parse_locale_directory(parse_locale_entry(builder, locale, Head(entries),
                                                   relative_path),
                                locale, Tail(entries), relative_path)

\* an unparseable directory name refused whether or not a graph was given
directory_locale_strict(dir_name, locales_to_visit) ==
    LET parsed_locale == parse_language_identifier(dir_name)
    IN  IF parsed_locale = None THEN Err(ParseLangDir(dir_name))
        ELSE IF locales_to_visit # None /\ parsed_locale[1] \notin locales_to_visit[1]
        THEN [kind |-> "continue"]
        ELSE Ok(parsed_locale[1])

\* `let locale = match &locales_to_visit { ... }`: the locale to visit, `continue`
\* or the error returned
directory_locale(dir_name, locales_to_visit) ==
    LET parsed_locale == parse_language_identifier(dir_name)
    IN  IF locales_to_visit # None
        THEN IF parsed_locale # None /\ parsed_locale[1] \in locales_to_visit[1]
             THEN Ok(parsed_locale[1])
             ELSE [kind |-> "continue"]
        ELSE IF parsed_locale = None THEN Err(ParseLangDir(dir_name))
             ELSE Ok(parsed_locale[1])

\* the body of `for entry in dir` in parse
parse_root_entry(builder, path, entry, locales_to_visit) ==
    LET entry_name == get_entry_name(entry)
        resource == read_fluent_resource(entry)
        locale == directory_locale(entry.name, locales_to_visit)
    IN  IF entry.kind = "file"
        THEN IF entry_name = None THEN builder
             ELSE IF ~starts_with_underscore(entry_name[1])
             THEN [builder EXCEPT
                      !.outcome = Err(GlobalNamedResource(path_join(path, entry.name)))]
             ELSE IF resource.kind = "Err" THEN [builder EXCEPT !.outcome = resource]
             ELSE add_global_unnamed_resource(builder, resource.value)
        ELSE IF locale.kind = "continue" THEN builder
        ELSE IF locale.kind = "Err" THEN [builder EXCEPT !.outcome = locale]
        ELSE parse_locale_directory(
                 [builder EXCEPT !.locales_visited = @ \cup {locale.value}],
                 locale.value, entry.entries, <<>>)

\* the walk that goes on after an entry failed
RECURSIVE parse_root_to_the_end(_, _, _, _)
parse_root_to_the_end(builder, path, entries, locales_to_visit) ==
    IF entries = <<>> THEN builder
    ELSE parse_root_to_the_end(
             parse_root_entry(builder, path, Head(entries), locales_to_visit),
             path, Tail(entries), locales_to_visit)

RECURSIVE parse_root(_, _, _, _)
parse_root(builder, path, entries, locales_to_visit) ==
    IF entries = <<>> \/ builder.outcome # Walking THEN builder
    ELSE parse_root(parse_root_entry(builder, path, Head(entries), locales_to_visit),
                    path, Tail(entries), locales_to_visit)

\* every locale of the graph asked for, the mains with a fallback as well
mandatory_check_all_locales(builder, locales_option) ==
    LET differences == IF locales_option = None THEN {}
                       ELSE all_locales(locales_option[1]) \ builder.locales_visited
    IN  IF builder.outcome # Walking THEN builder
        ELSE IF differences # {}
        THEN [builder EXCEPT !.outcome = Err(MissingLocales(differences))]
        ELSE [builder EXCEPT !.outcome = [kind |-> "Ok"]]

\* the check of the mandatory locales after the walk; the missing locales are
\* collected from a hash set and are held as a set
mandatory_check(builder, locales_option) ==
    LET differences == IF locales_option = None THEN {}
                       ELSE mandatory_locales(locales_option[1]) \ builder.locales_visited
    IN  IF builder.outcome # Walking THEN builder
        ELSE IF differences # {}
        THEN [builder EXCEPT !.outcome = Err(MissingLocales(differences))]
        ELSE [builder EXCEPT !.outcome = [kind |-> "Ok"]]

\* L10nBuilder::parse(path, locales_option) up to the assignment of builder.locales
parse_directory(path, entries, locales_option) ==
    mandatory_check(
        parse_root(DefaultBuilder, path, entries,
                   IF locales_option = None THEN None
                   ELSE Some(all_locales(locales_option[1]))),
        locales_option)

\* the directory handed to parse and what can lie directly under it; a document
\* defines "T" with a number of its own
MaxRootEntries == 3
RootPath == <<"locales">>
Ftl(stem, n) == File(stem \o <<".", "ftl">>, [id \in {"T"} |-> n])

EnDirectory ==
    <<Ftl(<<"_", "brand">>, 1), Ftl(<<"about">>, 2),
      File(<<"README", ".", "md">>, InvalidSource), File(<<".", "DS_Store">>, InvalidSource),
      Dir(<<"settings">>,
          <<Ftl(<<"_", "terms">>, 3), Ftl(<<"account">>, 4),
            File(<<"_", "ignored_file">>, InvalidSource),
            Dir(<<"advanced">>, <<Ftl(<<"admin">>, 5), File(<<"notes">>, InvalidSource)>>)>>)>>

RootEntries ==
    {Ftl(<<"_", "global">>, 6), Ftl(<<"global">>, 7),
     File(<<"_", "broken", ".", "ftl">>, InvalidSource),
     File(<<"README", ".", "md">>, InvalidSource), File(<<".", "DS_Store">>, InvalidSource),
     Dir(<<"en">>, EnDirectory),
     Dir(<<"en", "-", "GB">>, <<Ftl(<<"about">>, 8)>>),
     Dir(<<"en", "_", "GB">>, <<Ftl(<<"about">>, 9)>>),
     Dir(<<"fr">>, <<Ftl(<<"about">>, 10), Ftl(<<"_", "brand">>, 11),
                     File(<<"notes", ".", "txt">>, [id \in {"T"} |-> 13])>>),
     Dir(<<"fr">>, <<Ftl(<<"about">>, 14),
                     Dir(<<"settings">>, <<File(<<"account", ".", "ftl">>, InvalidSource)>>)>>),
     Dir(<<"x">>, <<Ftl(<<"about">>, 12)>>)}

\* read_dir of the root: some of the entries, in some order
RootDirectories ==
    {entries \in SeqsUpTo(RootEntries, MaxRootEntries) :
        \A i, j \in DOMAIN entries : i # j => entries[i].name # entries[j].name}

ParseGraphs ==
    {<<LocaleEntry("en-GB", Some("en")), LocaleEntry("fr", None)>>,
     <<LocaleEntry("en-GB", Some("en")), LocaleEntry("en", Some("fr"))>>,
     <<LocaleEntry("en", None)>>}

\* a call of L10nBuilder::parse(path, locales_option) about to run
InitParse ==
    /\ \E locales_option \in {None} \cup {Some(graph) : graph \in ParseGraphs} :
       \E entries \in RootDirectories :
          /\ parse = [pc |-> "called", path |-> RootPath, entries |-> entries,
                      locales_option |-> locales_option]
          /\ entries_in = IF locales_option = None THEN <<>> ELSE locales_option[1]
          /\ try_new = IF locales_option = None THEN [kind |-> "pending"] ELSE [kind |-> "Ok"]
    /\ locales = <<>>
    /\ route = RouteIdle
    /\ fluent_resources = <<>>
    /\ global_unnamed_resources = <<>>
    /\ unnamed_resources = EmptyMap
    /\ named_resources = EmptyMap
    /\ phase = "parsing"
    /\ resources = EmptyMap
    /\ build_errors = <<>>
    /\ functions = {}
    /\ query = NoQuery

\* L10nBuilder::parse: Ok(builder), Err(error) or the panic of add_named_resource
Parse ==
    /\ parse.pc = "called"
    /\ LET builder == parse_directory(parse.path, parse.entries, parse.locales_option)
       IN  /\ parse' = [pc |-> "returned", path |-> parse.path, entries |-> parse.entries,
                        locales_option |-> parse.locales_option,
                        locales_visited |-> builder.locales_visited,
                        result |-> builder.outcome]
           /\ IF builder.outcome.kind = "Ok"
              THEN /\ fluent_resources' = builder.fluent_resources
                   /\ global_unnamed_resources' = builder.global_unnamed_resources
                   /\ unnamed_resources' = builder.unnamed_resources
                   /\ named_resources' = builder.named_resources
                   /\ phase' = "builder"
                   /\ IF parse.locales_option # None
                      THEN locales' = parse.locales_option[1]
                      ELSE \E iteration \in Enumerations({langid(l) :
                                                             l \in builder.locales_visited}) :
                              locales' = from_hash_set(iteration)
              ELSE /\ phase' = IF builder.outcome = Panicked THEN "panicked"
                               ELSE "parse_failed"
                   /\ UNCHANGED <<fluent_resources, global_unnamed_resources,
                                  unnamed_resources, named_resources, locales>>
    /\ UNCHANGED <<entries_in, try_new, route, resources, build_errors, functions, query>>

NextParse == Parse

SpecParse == InitParse /\ [][NextParse]_vars

----------------------------------------------------------------------------
(* Queries on a built engine *)

Home == <<"home">>

QueryGraphs ==
    {<<LocaleEntry("en", None), LocaleEntry("fr", None)>>,
     <<LocaleEntry("en-GB", Some("en")), LocaleEntry("fr", None)>>,
     <<LocaleEntry("fr", None), LocaleEntry("en-GB", Some("en")), LocaleEntry("en", None)>>}

QueryDocuments == {DocumentA, DocumentB}
FunctionSets == {{"OUTER", "INNER", "UPPER", "SHOUT"}, {"OUTER"}}

QueryResources == {Home, <<"nope">>}
QueryKeys ==
    {<<"hello">>, <<"hello", ".", "title">>, <<"label">>, <<"items">>, <<"greet">>,
     <<"chain">>, <<"about">>, <<"price">>, <<"nested">>, <<"broken">>, <<"loop">>, <<"absent">>,
     <<"brand">>}
MessageKeys == {<<"hello">>, <<"label">>, <<"absent">>}

FullArgs ==
    [v \in {"name", "nom", "title", "count", "item", "items", "extra", "user",
            "amount", "unit", "text", "more", "plus"} |-> IF v = "count" THEN "one" ELSE "Ann"]
QueryArgs == {None, Some(FullArgs)}
LocalArgs == {None, Some(("name" :> "Bob") @@ ("nick" :> "Bob"))}

\* the calls made on an engine: every key of the catalog, one key of an unknown one
QueryCalls ==
    {<<resource, key>> \in QueryResources \X QueryKeys :
        resource = Home \/ key = <<"hello">>}

\* L10nBuilder::new(locales), add_function and add_named_resource for the
\* catalog "home": a document for en and for fr, possibly one for en-GB
InitQuery ==
    /\ entries_in \in QueryGraphs
    /\ try_new = [kind |-> "Ok"]
    /\ locales = entries_in
    /\ route = RouteIdle
    /\ \E en \in QueryDocuments, fr \in QueryDocuments, regional \in {<<>>, <<DocumentC>>} :
          /\ fluent_resources = <<en, fr>> \o regional
          /\ named_resources =
                (Home :> (("en" :> 0) @@ ("fr" :> 1)
                          @@ (IF regional = <<>> THEN EmptyMap ELSE ("en-GB" :> 2))))
    /\ global_unnamed_resources = <<>>
    /\ unnamed_resources = EmptyMap
    /\ phase = "builder"
    /\ resources = EmptyMap
    /\ build_errors = <<>>
    /\ parse = ParseIdle
    /\ functions \in FunctionSets
    /\ query = NoQuery

engine_vars == <<locales, fluent_resources, global_unnamed_resources, unnamed_resources,
                 named_resources, resources, functions>>

\* a query borrows the engine immutably
Answered ==
    /\ phase = "built"
    /\ UNCHANGED <<entries_in, try_new, route, build_errors, parse>>
    /\ UNCHANGED engine_vars

\* the query that drops the catalog it failed on
TryTranslateWithArgsEvicting(lang, resource, key, args) ==
    /\ phase = "built"
    /\ query' = [op |-> "try_translate_with_args", lang |-> lang, resource |-> resource,
                 key |-> key, args |-> args,
                 result |-> try_translate_with_args(lang, resource, key, args)]
    /\ resources' = IF query'.result.kind = "Err"
                    THEN [name \in DOMAIN resources \ {resource} |-> resources[name]]
                    ELSE resources
    /\ UNCHANGED <<entries_in, try_new, route, build_errors, parse, phase, locales,
                   fluent_resources, global_unnamed_resources, unnamed_resources,
                   named_resources, functions>>

TryTranslateWithArgs(lang, resource, key, args) ==
    /\ Answered
    /\ query' = [op |-> "try_translate_with_args", lang |-> lang, resource |-> resource,
                 key |-> key, args |-> args,
                 result |-> try_translate_with_args(lang, resource, key, args)]
    /\ UNCHANGED phase

TranslateWithArgs(local_args, lang, resource, key, args) ==
    /\ Answered
    /\ LET self == NewMessage(resource, key, local_args)
       IN  query' = [op |-> "translate_with_args", lang |-> lang, resource |-> resource,
                     key |-> key, local_args |-> local_args, args |-> args,
                     attempt |-> Message_try_translate_with_args(self, lang, args),
                     result |-> Message_translate_with_args(self, lang, args)]
    /\ UNCHANGED phase

Translate(local_args, lang, resource, key) ==
    /\ Answered
    /\ LET self == NewMessage(resource, key, local_args)
       IN  query' = [op |-> "translate", lang |-> lang, resource |-> resource,
                     key |-> key, local_args |-> local_args, args |-> None,
                     attempt |-> Message_try_translate_with_args(self, lang, None),
                     result |-> Message_translate(self, lang)]
    /\ UNCHANGED phase

\* a stack overflow aborts the process
RequiredVariables(resource, key) ==
    /\ Answered
    /\ \E iteration \in Enumerations(main_locales(locales)) :
          query' = [op |-> "required_variables", resource |-> resource, key |-> key,
                    iteration |-> iteration,
                    result |-> required_variables(resource, key, iteration)]
    /\ phase' = IF query'.result = StackOverflow THEN "aborted" ELSE phase

RequiredFunctions ==
    /\ Answered
    /\ query' = [op |-> "required_functions", result |-> required_functions]
    /\ UNCHANGED phase

NextQuery ==
    \/ Build
    \/ \E lang \in LocaleIds, call \in QueryCalls, args \in QueryArgs :
          TryTranslateWithArgs(lang, call[1], call[2], args)
    \/ \E local_args \in LocalArgs, lang \in LocaleIds, key \in MessageKeys,
          args \in QueryArgs :
          TranslateWithArgs(local_args, lang, Home, key, args)
    \/ \E local_args \in LocalArgs, lang \in LocaleIds, key \in MessageKeys :
          Translate(local_args, lang, Home, key)
    \/ \E call \in QueryCalls : RequiredVariables(call[1], call[2])
    \/ RequiredFunctions

SpecQuery == InitQuery /\ [][NextQuery]_vars

----------------------------------------------------------------------------
(* Properties of the locale graph *)

HasDuplicateMain(ls) == \E i, j \in DOMAIN ls : i # j /\ ls[i].main = ls[j].main

\* x falls back to y in some entry
FallsBackTo(ls, x, y) == \E i \in DOMAIN ls : ls[i].main = x /\ ls[i].fallback = Some(y)

FallbackTargets(ls, S) == {y \in all_locales(ls) : \E x \in S : FallsBackTo(ls, x, y)}

RECURSIVE ReachWithin(_, _, _)
ReachWithin(ls, S, n) ==
    IF n = 0 THEN S ELSE ReachWithin(ls, S \cup FallbackTargets(ls, S), n - 1)

\* the locales reached from x by one or more fallback steps
ReachableFrom(ls, x) == ReachWithin(ls, FallbackTargets(ls, {x}), Len(ls))

OnFallbackCycle(ls, x) == x \in ReachableFrom(ls, x)

HasFallbackCycle(ls) == \E x \in main_locales(ls) : OnFallbackCycle(ls, x)

LeadsToCycle(ls, x) ==
    OnFallbackCycle(ls, x) \/ \E y \in ReachableFrom(ls, x) : OnFallbackCycle(ls, y)

\* v is a walk along fallback pointers that starts at the first entry leading
\* into a cycle, visits distinct locales and ends by repeating one of them
ExactVisited(ls, v) ==
    /\ Len(v) >= 2
    /\ \E k \in DOMAIN ls :
          /\ ls[k].main = v[1]
          /\ \A j \in 1..(k - 1) : ~LeadsToCycle(ls, ls[j].main)
    /\ \A i \in 1..(Len(v) - 1) : FallsBackTo(ls, v[i], v[i + 1])
    /\ \A i, j \in 1..(Len(v) - 1) : i # j => v[i] # v[j]
    /\ \E i \in 1..(Len(v) - 1) : v[i] = v[Len(v)]

\* C7 as stated: a list whose fallback pointers contain a cycle fails with
\* InfiniteFallbackLoop carrying the exact visited sequence.
C7_Original ==
    (try_new.kind # "pending" /\ HasFallbackCycle(entries_in))
        => (try_new.kind = "InfiniteFallbackLoop"
            /\ ExactVisited(entries_in, try_new.visited))

\* C7 amended: a list whose fallback pointers contain a cycle always fails; with
\* pairwise distinct mains the failure is InfiniteFallbackLoop, and that error
\* carries the exact sequence of visited locales ending with the repeated one
\* (a duplicated main met earlier in the list is reported instead of the loop).
C7_CycleFails ==
    (try_new.kind # "pending" /\ HasFallbackCycle(entries_in))
        => /\ try_new.kind \in {"InfiniteFallbackLoop", "MainLocaleDuplicate"}
           /\ ~HasDuplicateMain(entries_in) =>
                 /\ try_new.kind = "InfiniteFallbackLoop"
                 /\ ExactVisited(entries_in, try_new.visited)

C7_Witness ==
    /\ try_new.kind = "InfiniteFallbackLoop"
    /\ Len(try_new.visited) = 4
    /\ try_new.visited[4] = try_new.visited[1]

FirstRepeatedMain(ls, l) ==
    \E j \in DOMAIN ls :
        /\ ls[j].main = l
        /\ \E i \in 1..(j - 1) : ls[i].main = l
        /\ \A k \in 1..(j - 1) : \A i \in 1..(k - 1) : ls[i].main # ls[k].main

\* C8 as stated: two entries sharing a main fail with MainLocaleDuplicate, an
\* empty list fails with Empty.
C8_Original ==
    try_new.kind # "pending"
        => /\ HasDuplicateMain(entries_in) =>
                 /\ try_new.kind = "MainLocaleDuplicate"
                 /\ FirstRepeatedMain(entries_in, try_new.locale)
           /\ entries_in = <<>> => try_new.kind = "Empty"

\* C8 amended: two entries sharing a main always make try_new fail; the failure
\* is MainLocaleDuplicate of the first repeated main unless a fallback loop is
\* found from an earlier entry (then it is InfiniteFallbackLoop); an empty list
\* fails with Empty.
C8_DuplicateFails ==
    try_new.kind # "pending"
        => /\ HasDuplicateMain(entries_in) =>
                 /\ try_new.kind \in {"MainLocaleDuplicate", "InfiniteFallbackLoop"}
                 /\ ~HasFallbackCycle(entries_in) => try_new.kind = "MainLocaleDuplicate"
                 /\ try_new.kind = "MainLocaleDuplicate"
                        => FirstRepeatedMain(entries_in, try_new.locale)
           /\ entries_in = <<>> => try_new.kind = "Empty"

C8_Witness ==
    /\ try_new.kind = "MainLocaleDuplicate"
    /\ Len(entries_in) = 3
    /\ entries_in[1].main # try_new.locale
    /\ entries_in[1].fallback # None

IsTerminal(ls, l) ==
    \A i \in DOMAIN ls : ls[i].main = l => ls[i].fallback = None

\* C9 as stated: the route of a main locale of a valid graph has at most as many
\* elements as there are entries, and its last element has no further fallback.
C9_Original ==
    (route.pc = "done" /\ route.result # None)
        => /\ Len(route.result[1]) <= Len(locales)
           /\ IsTerminal(locales, route.result[1][Len(route.result[1])])

\* C9 amended: locale_resolution_route terminates on every valid graph: the route
\* under construction never exceeds the number of entries plus one (the terminal
\* locale may be a fallback target that is no main), and the last element of
\* the returned route has no further fallback among the configured mains.
C9_RouteBounded ==
    /\ route.pc = "loop" => Len(route.resolution) <= Len(locales) + 1
    /\ (route.pc = "done" /\ route.result # None)
          => /\ Len(route.result[1]) <= Len(locales) + 1
             /\ IsTerminal(locales, route.result[1][Len(route.result[1])])

C9_Witness ==
    /\ route.pc = "done"
    /\ route.result # None
    /\ Len(locales) = 2
    /\ Len(route.result[1]) = 3

IsFallbackChain(ls, l, r) ==
    /\ Len(r) >= 1
    /\ r[1] = l
    /\ \A i \in 1..(Len(r) - 1) : FallsBackTo(ls, r[i], r[i + 1])
    /\ IsTerminal(ls, r[Len(r)])

\* C10: locale_resolution_route(l) is Some exactly when l is the main of an
\* entry; it is then the chain [l, fallback of l, ...] up to the terminal locale;
\* for any other locale, also one that is only a fallback target, it is None.
C10_RouteDefinedForMains ==
    route.pc = "done"
        => /\ route.result # None <=> route.locale \in main_locales(locales)
           /\ route.result # None => IsFallbackChain(locales, route.locale, route.result[1])

C10_Witness ==
    /\ route.pc = "done"
    /\ route.result = None
    /\ route.locale \in all_locales(locales)

----------------------------------------------------------------------------
(* Properties of the bundles *)

ResourceIndices == 0..(Len(fluent_resources) - 1)

Defines(resource_index, id) == id \in DOMAIN resource_at(fluent_resources, resource_index)

PositionIn(s, x) == CHOOSE i \in DOMAIN s : s[i] = x

IsGlobalUnnamed(i) == Contains(global_unnamed_resources, i)

UnnamedKeysOf(i) == {key \in DOMAIN unnamed_resources : Contains(unnamed_resources[key], i)}

NamedKeysOf(i) ==
    {key \in (DOMAIN named_resources) \X BuilderLocaleIds :
        /\ key[2] \in DOMAIN named_resources[key[1]]
        /\ named_resources[key[1]][key[2]] = i}

\* the directory components of a catalog name
DirectoryOf(name) == Front(path_iter(name))

IsPrefix(s, t) == Len(s) <= Len(t) /\ SubSeq(t, 1, Len(s)) = s

\* directory is the catalog's own directory or one above it, up to the root
IsAncestorDirectory(directory, name) == IsPrefix(path_iter(directory), DirectoryOf(name))

Depth(directory) == Len(path_iter(directory))

\* 1 for the terminal locale of the route, Len(r) for the main locale
Specificity(r, locale) == Len(r) + 1 - PositionIn(r, locale)

RouteOf(locale) == locale_resolution_route(locales, locale)[1]

\* document i belongs to the bundle of catalog name whose locale has route r
IsContribution(name, r, i) ==
    \/ IsGlobalUnnamed(i)
    \/ \E key \in UnnamedKeysOf(i) :
          IsAncestorDirectory(key[1], name) /\ Contains(r, key[2])
    \/ \E key \in NamedKeysOf(i) : key[1] = name /\ Contains(r, key[2])

\* <<tier, directory depth, locale specificity, registration order>>
LayerRank(r, i) ==
    IF IsGlobalUnnamed(i)
    THEN <<1, 0, 0, PositionIn(global_unnamed_resources, i)>>
    ELSE IF UnnamedKeysOf(i) # {}
    THEN LET key == CHOOSE k \in UnnamedKeysOf(i) : TRUE
         IN  <<2, Depth(key[1]), Specificity(r, key[2]),
               PositionIn(unnamed_resources[key], i)>>
    ELSE LET key == CHOOSE k \in NamedKeysOf(i) : TRUE
         IN  <<3, 0, Specificity(r, key[2]), 0>>

RECURSIVE LexLess(_, _)
LexLess(a, b) ==
    /\ a # <<>>
    /\ \/ Head(a) < Head(b)
       \/ Head(a) = Head(b) /\ LexLess(Tail(a), Tail(b))

\* the entries of a bundle are those of its documents, the last layered winning
LastLayerWins(bundle) ==
    LET Definers(id) == {p \in DOMAIN bundle.resources : Defines(bundle.resources[p], id)}
    IN  /\ DOMAIN bundle.entries = {id \in EntryIds : Definers(id) # {}}
        /\ \A id \in DOMAIN bundle.entries :
              \E p \in Definers(id) :
                  /\ bundle.entries[id] = bundle.resources[p]
                  /\ \A q \in Definers(id) : q <= p

\* C1: each bundle (catalog, main locale) is layered from exactly the global
\* documents, the path-unnamed documents of the catalog's ancestor directories
\* for the route's locales and the catalog's named documents for the route's
\* locales, in the order tier, then directory root-down, then locale from
\* terminal to main, then registration, a later layer overriding earlier ones.
C1_LayeringOrder ==
    phase = "built" =>
        /\ DOMAIN resources = DOMAIN named_resources
        /\ \A name \in DOMAIN resources :
              /\ DOMAIN resources[name] = main_locales(locales)
              /\ \A locale \in DOMAIN resources[name] :
                    LET bundle == resources[name][locale]
                        layers == bundle.resources
                    IN  /\ Range(layers) =
                               {i \in ResourceIndices : IsContribution(name, RouteOf(locale), i)}
                        /\ \A p, q \in DOMAIN layers :
                              p < q => LexLess(LayerRank(RouteOf(locale), layers[p]),
                                               LayerRank(RouteOf(locale), layers[q]))
                        /\ LastLayerWins(bundle)

\* a bundle of three documents over a two-locale route whose layering order is
\* not the registration order
C1_Witness ==
    /\ phase = "built"
    /\ \E name \in DOMAIN resources : \E locale \in DOMAIN resources[name] :
          LET bundle == resources[name][locale]
          IN  /\ Len(bundle.locales) = 2
              /\ Len(bundle.resources) = 3
              /\ \E p, q \in DOMAIN bundle.resources :
                    /\ p < q
                    /\ bundle.resources[p] > bundle.resources[q]
                    /\ ~IsGlobalUnnamed(bundle.resources[p])
              /\ \E id \in DOMAIN bundle.entries :
                    bundle.entries[id] # bundle.resources[1]

BundleKeys ==
    {key \in (DOMAIN resources) \X BuilderLocaleIds : key[2] \in DOMAIN resources[key[1]]}

IsUnnamed(i) == UnnamedKeysOf(i) # {}
IsNamed(i) == NamedKeysOf(i) # {}

\* the locale a path-unnamed or named document was registered for
LocaleOf(i) == (CHOOSE key \in UnnamedKeysOf(i) \cup NamedKeysOf(i) : TRUE)[2]

DirectoryDepthOf(i) == Depth((CHOOSE key \in UnnamedKeysOf(i) : TRUE)[1])

\* i's layer is the named one, or a path-unnamed one at least as deep as j's
NotBelow(i, j) ==
    \/ IsNamed(i)
    \/ IsUnnamed(i) /\ IsUnnamed(j) /\ DirectoryDepthOf(i) >= DirectoryDepthOf(j)

\* the registered documents that apply to the bundle of key = <<catalog, locale>>
Contributions(key) ==
    {i \in ResourceIndices : IsContribution(key[1], RouteOf(key[2]), i)}

Overrides(bundle, id, i, j) ==
    /\ Contains(bundle.resources, i) /\ Contains(bundle.resources, j)
    /\ PositionIn(bundle.resources, i) > PositionIn(bundle.resources, j)
    /\ id \in DOMAIN bundle.entries
    /\ bundle.entries[id] # j

\* the pairs of documents applying to a bundle that define the same id, the
\* first for a more specific locale of the route than the second
SpecificGeneralPairs(key, id) ==
    {pair \in Contributions(key) \X Contributions(key) :
        /\ ~IsGlobalUnnamed(pair[1]) /\ ~IsGlobalUnnamed(pair[2])
        /\ Defines(pair[1], id) /\ Defines(pair[2], id)
        /\ Specificity(RouteOf(key[2]), LocaleOf(pair[1]))
               > Specificity(RouteOf(key[2]), LocaleOf(pair[2]))}

\* C2 as stated: in every bundle a definition for a more specific locale of the
\* route overrides a same-named definition for a more general locale, whatever
\* documents they come from.
C2_Original ==
    phase = "built" =>
        \A key \in BundleKeys : \A id \in EntryIds :
            LET bundle == resources[key[1]][key[2]]
            IN  \A pair \in SpecificGeneralPairs(key, id) :
                    Overrides(bundle, id, pair[1], pair[2])

\* C2 amended: the more specific locale's definition overrides the more general
\* one when it comes from the named document or from a path-unnamed document of
\* the same or a deeper directory; otherwise (a named document for the general
\* locale against a path-unnamed one, or a deeper directory for the general
\* locale) the more general locale's definition overrides it.
C2_SpecificOverridesWithinTier ==
    phase = "built" =>
        \A key \in BundleKeys : \A id \in EntryIds :
            LET bundle == resources[key[1]][key[2]]
            IN  \A pair \in SpecificGeneralPairs(key, id) :
                    IF NotBelow(pair[1], pair[2])
                    THEN Overrides(bundle, id, pair[1], pair[2])
                    ELSE Overrides(bundle, id, pair[2], pair[1])

\* two path-unnamed documents of one directory, the one of the main locale
\* registered first and still winning over the one of its fallback
C2_Witness ==
    /\ phase = "built"
    /\ \E key \in BundleKeys : \E id \in EntryIds :
          LET bundle == resources[key[1]][key[2]]
          IN  \E pair \in SpecificGeneralPairs(key, id) :
                  /\ IsUnnamed(pair[1]) /\ IsUnnamed(pair[2])
                  /\ DirectoryDepthOf(pair[1]) = DirectoryDepthOf(pair[2])
                  /\ pair[1] < pair[2]
                  /\ bundle.entries[id] = pair[1]

OwnDirectory(name) == join_slash(DirectoryOf(name))

\* u is the one path-unnamed document of the catalog's own directory and the
\* bundle's locale that defines id
OwnUnnamedDefinition(name, locale, id, u) ==
    LET key == <<OwnDirectory(name), locale>>
    IN  /\ key \in DOMAIN unnamed_resources
        /\ \A i \in ResourceIndices :
              (Contains(unnamed_resources[key], i) /\ Defines(i, id)) <=> i = u

NamedDefinitions(name, id) ==
    {i \in ResourceIndices : Defines(i, id) /\ \E key \in NamedKeysOf(i) : key[1] = name}

\* C3: with T defined by a global document and by the path-unnamed document of
\* the catalog's own directory for L, the bundle (catalog, L) resolves T to the
\* path-unnamed definition when no named document of the catalog defines T, and
\* to the definition of the catalog's named document for L when that defines T.
C3_Overriding ==
    phase = "built" =>
        \A key \in BundleKeys : \A id \in EntryIds : \A g, u \in ResourceIndices :
            LET name == key[1]
                locale == key[2]
                bundle == resources[name][locale]
                own == named_fluent_resource(name, locale, named_resources)
            IN  (/\ IsGlobalUnnamed(g) /\ Defines(g, id)
                 /\ OwnUnnamedDefinition(name, locale, id, u))
                => /\ NamedDefinitions(name, id) = {} => bundle.entries[id] = u
                   /\ (own # None /\ Defines(own[1], id)) => bundle.entries[id] = own[1]

\* global T registered last, path-unnamed T in the catalog's directory, named
\* document silent about T
C3_Witness ==
    /\ phase = "built"
    /\ \E key \in BundleKeys : \E g, u \in ResourceIndices :
          /\ IsGlobalUnnamed(g) /\ Defines(g, "T")
          /\ u < g
          /\ OwnUnnamedDefinition(key[1], key[2], "T", u)
          /\ NamedDefinitions(key[1], "T") = {}
          /\ resources[key[1]][key[2]].entries["T"] = u

\* the documents applying to the bundle that are registered for locale l and
\* define id
DefinitionsFor(key, l, id) ==
    {i \in Contributions(key) : ~IsGlobalUnnamed(i) /\ LocaleOf(i) = l /\ Defines(i, id)}

\* apart from global documents and from definitions for the main locale, id is
\* defined in the bundle by shared path-unnamed documents for l1 only, at least once
SharedOnly(key, l1, id) ==
    /\ DefinitionsFor(key, l1, id) # {}
    /\ \A i \in Contributions(key) :
          (~IsGlobalUnnamed(i) /\ Defines(i, id) /\ LocaleOf(i) # key[2])
              => (IsUnnamed(i) /\ LocaleOf(i) = l1)

\* C4 as stated: with L2 falling back to L1, T defined for L1 in a shared
\* path-unnamed document is resolvable in (catalog, L2), and any definition of T
\* for L2 wins over it.
C4_Original ==
    phase = "built" =>
        \A key \in BundleKeys : \A id \in EntryIds :
            LET bundle == resources[key[1]][key[2]]
                r == RouteOf(key[2])
            IN  (Len(r) >= 2 /\ SharedOnly(key, r[2], id))
                => /\ id \in DOMAIN bundle.entries
                   /\ DefinitionsFor(key, r[1], id) # {}
                         => bundle.entries[id] \in DefinitionsFor(key, r[1], id)

\* C4 amended: T defined for L1 in a shared path-unnamed document is resolvable
\* in (catalog, L2); a definition of T for L2 wins over it when it comes from
\* the catalog's named document or from a path-unnamed document of the same or
\* a deeper directory; otherwise the L1 definition wins.
C4_FallbackLayering ==
    phase = "built" =>
        \A key \in BundleKeys : \A id \in EntryIds :
            LET bundle == resources[key[1]][key[2]]
                r == RouteOf(key[2])
                general == DefinitionsFor(key, r[2], id)
                specific == DefinitionsFor(key, r[1], id)
            IN  (Len(r) >= 2 /\ SharedOnly(key, r[2], id))
                => /\ id \in DOMAIN bundle.entries
                   /\ specific = {} => bundle.entries[id] \in general
                   /\ specific # {} =>
                         IF \E x \in specific : \A y \in general : NotBelow(x, y)
                         THEN bundle.entries[id] \in specific
                         ELSE bundle.entries[id] \in general

\* T inherited from the fallback locale's shared document registered after the
\* catalog's named documents, none of which defines T
C4_Witness ==
    /\ phase = "built"
    /\ \E key \in BundleKeys :
          LET bundle == resources[key[1]][key[2]]
              r == RouteOf(key[2])
          IN  /\ Len(r) = 2
              /\ SharedOnly(key, r[2], "T")
              /\ DefinitionsFor(key, r[1], "T") = {}
              /\ ~IsGlobalUnnamed(bundle.resources[1])
              /\ LocaleOf(bundle.entries["T"]) = r[2]
              /\ bundle.entries["T"] = Len(fluent_resources) - 1

----------------------------------------------------------------------------
(* Properties of the consistency check *)

BuildReturned == phase \in {"built", "build_failed"}

\* the mandatory locales for which the catalog has no named document of its own
MissingFor(name) ==
    {locale \in mandatory_locales(locales) : locale \notin DOMAIN named_resources[name]}

IncompleteCatalogs == {name \in DOMAIN named_resources : MissingFor(name) # {}}

\* C5: build fails exactly when some catalog lacks its own named document for a
\* mandatory locale; the error then holds one MissingResource per such catalog
\* and for no other, each listing exactly that catalog's missing mandatory
\* locales, once each.
C5_MissingResources ==
    BuildReturned =>
        /\ phase = "build_failed" <=> IncompleteCatalogs # {}
        /\ phase = "build_failed" =>
              /\ Len(build_errors) = Cardinality(IncompleteCatalogs)
              /\ \A name \in IncompleteCatalogs :
                    \E k \in DOMAIN build_errors :
                        /\ build_errors[k].kind = "MissingResource"
                        /\ build_errors[k].resource = name
                        /\ Range(build_errors[k].locales) = MissingFor(name)
                        /\ Len(build_errors[k].locales) = Cardinality(MissingFor(name))

\* two catalogs reported together, a third registration being complete elsewhere
C5_Witness ==
    /\ phase = "build_failed"
    /\ Len(build_errors) = 2
    /\ build_errors[1].resource # build_errors[2].resource
    /\ Len(fluent_resources) = 3

\* the locale at the end of the fallback chain of a main locale
ChainEnd(locale) == RouteOf(locale)[Len(RouteOf(locale))]

\* the main locales that are not the end of their own chain and hold a named
\* document of the catalog
RegionalLocalesOf(name) ==
    {locale \in main_locales(locales) \cap DOMAIN named_resources[name] :
        ChainEnd(locale) # locale}

\* C6: a catalog holding a named document at a non-mandatory locale whose chain
\* ends at a mandatory locale without the catalog's named document makes build
\* fail with an error naming the catalog and that locale; once the catalog has
\* the document at that locale no error names it for that locale, and build
\* succeeds when nothing else is missing.
C6_MandatoryAncestor ==
    BuildReturned =>
        \A name \in DOMAIN named_resources : \A locale \in RegionalLocalesOf(name) :
            IF ChainEnd(locale) \notin DOMAIN named_resources[name]
            THEN /\ phase = "build_failed"
                 /\ \E k \in DOMAIN build_errors :
                       /\ build_errors[k].resource = name
                       /\ Contains(build_errors[k].locales, ChainEnd(locale))
            ELSE /\ \A k \in DOMAIN build_errors :
                       build_errors[k].resource = name
                           => ~Contains(build_errors[k].locales, ChainEnd(locale))
                 /\ (\A other \in DOMAIN named_resources :
                        \A l \in main_locales(locales) :
                            ChainEnd(l) \in DOMAIN named_resources[other])
                       => phase = "built"

\* a catalog registered for the region variant only
C6_Witness ==
    /\ phase = "build_failed"
    /\ \E name \in DOMAIN named_resources : \E locale \in RegionalLocalesOf(name) :
          /\ DOMAIN named_resources[name] = {locale}
          /\ build_errors = <<MissingResource(name, <<ChainEnd(locale)>>)>>

----------------------------------------------------------------------------
(* Properties of the derived locale graph *)

\* C11 (as stated): the locale graph of every engine that was built is
\* non-empty, has pairwise distinct mains and has no fallback cycle
C11_Original ==
    phase = "built" =>
        /\ locales # <<>>
        /\ ~HasDuplicateMain(locales)
        /\ ~HasFallbackCycle(locales)

\* the two invariants a derived graph does keep, whatever the discovered set
C11_DerivedDistinctAcyclic ==
    parse.pc = "returned" => ~HasDuplicateMain(locales) /\ ~HasFallbackCycle(locales)

\* the locale of the set that equals l but for its region, which it lacks
IsRegionStripped(s, l) ==
    /\ s.region = None
    /\ s.language = l.language
    /\ s.script = l.script
    /\ s.variants = l.variants

ExpectedFallback(visited, l) ==
    IF l.region # None /\ \E s \in visited : IsRegionStripped(s, l)
    THEN Some(CHOOSE s \in visited : IsRegionStripped(s, l))
    ELSE None

\* C12: the graph derived from a flat locale set has exactly one entry per
\* locale of the set; a locale with a region whose region-stripped form is
\* also in the set falls back to that form, every other locale has no fallback
C12_DerivedGraph ==
    parse.pc = "returned" =>
        /\ Len(locales) = Cardinality(parse.locales_visited)
        /\ \A l \in parse.locales_visited :
              \E i \in DOMAIN locales :
                  locales[i] = LocaleEntry(l, ExpectedFallback(parse.locales_visited, l))

\* a derived graph with a regional locale that falls back, one whose stripped
\* form (with its variant) was not discovered, and one without a region
C12_Witness ==
    /\ parse.pc = "returned"
    /\ \E i, j, k \in DOMAIN locales :
          /\ locales[i].main.region # None /\ locales[i].fallback # None
          /\ locales[j].main.region # None /\ locales[j].fallback = None
          /\ locales[j].main.variants # <<>>
          /\ locales[k].main.region = None

----------------------------------------------------------------------------
(* Properties of translation *)

NoDot(text) == \A i \in DOMAIN text : text[i] # "."

\* the text of key before its first '.', the whole key when it has none
KeyMessageId(key) ==
    CHOOSE id \in {SubSeq(key, 1, n) : n \in 0..Len(key)} :
        NoDot(id) /\ (Len(id) = Len(key) \/ key[Len(id) + 1] = ".")

\* the text of key after its first '.', if it has one
KeyAttribute(key) ==
    IF NoDot(key) THEN None
    ELSE Some(SubSeq(key, Len(KeyMessageId(key)) + 2, Len(key)))

Fails(result, type) == result.kind = "Err" /\ result.error.type = type

\* C13: try_translate_with_args reports the first failing check, in this
\* order: unknown catalog (ResourceNotExists), no bundle of the catalog for the
\* locale (LocaleNotSupported), no message of the id before the first '.' in
\* the bundle (MessageIdNotExists), requested attribute absent
\* (MessageAttributeNotExists), no attribute requested and no value
\* (MessageIdValueNotExists), formatting errors (FormatErrors, no string);
\* otherwise the formatted string is returned
C13_Classification ==
    query.op = "try_translate_with_args" =>
        LET r == query.result
            id == KeyMessageId(query.key)
            attribute == KeyAttribute(query.key)
        IN  IF query.resource \notin DOMAIN resources
            THEN r = Err(ResourceNotExists(query.resource))
            ELSE IF query.lang \notin DOMAIN resources[query.resource]
            THEN r = Err(LocaleNotSupported(query.lang))
            ELSE LET bundle == resources[query.resource][query.lang]
                     message == get_message(bundle, fluent_resources, id)
                 IN  IF message = None
                     THEN Fails(r, "MessageIdNotExists") /\ r.error.id = id
                     ELSE IF attribute # None
                             /\ get_attribute(message[1], attribute[1]) = None
                     THEN Fails(r, "MessageAttributeNotExists")
                          /\ r.error.id = id /\ r.error.attribute = attribute[1]
                     ELSE IF attribute = None /\ message[1].value = None
                     THEN Fails(r, "MessageIdValueNotExists") /\ r.error.id = id
                     ELSE LET pattern == IF attribute # None
                                         THEN get_attribute(message[1], attribute[1])[1]
                                         ELSE message[1].value[1]
                              formatted == format_pattern(bundle, fluent_resources,
                                                          functions, pattern, query.args)
                          IN  IF formatted.errors # <<>>
                              THEN Fails(r, "FormatErrors")
                                   /\ r.error.errors = formatted.errors
                              ELSE r = Ok(formatted.value)

\* a call that passed every lookup and failed in formatting only
C13_Witness ==
    /\ query.op = "try_translate_with_args"
    /\ Fails(query.result, "FormatErrors")
    /\ query.key = <<"hello", ".", "title">>

\* C14: translate and translate_with_args return the string of the try_
\* method when it succeeds and the sentinel "Unexpected message" when it fails
C14_BestEffort ==
    query.op \in {"translate", "translate_with_args"} =>
        /\ query.attempt.kind \in {"Ok", "Err"}
        /\ query.attempt.kind = "Ok" => query.result = query.attempt.value
        /\ query.attempt.kind = "Err" => query.result = <<"Unexpected message">>

\* a failed try_ call answered by the sentinel
C14_Witness ==
    /\ query.op = "translate"
    /\ Fails(query.attempt, "MessageIdValueNotExists")
    /\ query.result = <<"Unexpected message">>

----------------------------------------------------------------------------
(* Properties of required_variables *)

\* the bundles of the catalog a required_variables call was made on
QueriedBundles == resources[query.resource]

RequiredVariablesReturned ==
    /\ query.op = "required_variables"
    /\ query.result.kind = "Ok"

\* the entry that the bundle resolves id to
EntryOf(bundle, id) == resource_at(fluent_resources, bundle.entries[id])[id]

\* the bundle has a message id with the pattern asked for
HasPattern(bundle, id, attribute) ==
    /\ id \in DOMAIN bundle.entries
    /\ EntryOf(bundle, id).kind = "Message"
    /\ IF attribute = None THEN EntryOf(bundle, id).value # None
       ELSE \E a \in Range(EntryOf(bundle, id).attributes) : a.id = attribute[1]

PatternOf(bundle, id, attribute) ==
    IF attribute = None THEN EntryOf(bundle, id).value[1]
    ELSE LET attributes == EntryOf(bundle, id).attributes
         IN  attributes[CHOOSE i \in DOMAIN attributes :
                            /\ attributes[i].id = attribute[1]
                            /\ \A j \in 1..(i - 1) : attributes[j].id # attribute[1]].value

\* the pattern that the key of the call names in the bundle
KeyPattern(bundle) == PatternOf(bundle, KeyMessageId(query.key), KeyAttribute(query.key))

\* the inline expressions of that type placed directly in the pattern
DirectInlines(pattern, type) ==
    {pattern[i].expression.inline :
        i \in {j \in DOMAIN pattern : /\ pattern[j].type = "Placeable"
                                      /\ pattern[j].expression.type = "Inline"
                                      /\ pattern[j].expression.inline.type = type}}

DirectVariables(pattern) == {v.id : v \in DirectInlines(pattern, "VariableReference")}

DirectSelects(pattern) ==
    {pattern[i].expression :
        i \in {j \in DOMAIN pattern : /\ pattern[j].type = "Placeable"
                                      /\ pattern[j].expression.type = "Select"}}

\* what the same call returns on a catalog made of that one bundle
BundleVariables(locale) ==
    resource_required_variables(<<QueriedBundles[locale]>>, fluent_resources, query.key)

\* C15: required_variables returns the union, over every locale bundle of the
\* catalog, of the variables referenced by that bundle's pattern for the key:
\* a variable placed in the pattern of any one locale is in the result
C15_Union ==
    RequiredVariablesReturned =>
        /\ \A l \in DOMAIN QueriedBundles :
              DirectVariables(KeyPattern(QueriedBundles[l])) \subseteq query.result.value
        /\ query.result.value =
              UNION {BundleVariables(l).value : l \in DOMAIN QueriedBundles}

\* two locales phrase the message with different variables
C15_Witness ==
    /\ RequiredVariablesReturned
    /\ \E l1, l2 \in DOMAIN QueriedBundles :
          LET v1 == DirectVariables(KeyPattern(QueriedBundles[l1]))
              v2 == DirectVariables(KeyPattern(QueriedBundles[l2]))
          IN  v1 \ v2 # {} /\ v2 \ v1 # {}

\* the pattern a message reference resolves to in the bundle
MessageTargets(bundle, pattern) ==
    {PatternOf(bundle, ref.id, ref.attribute) :
        ref \in {r \in DirectInlines(pattern, "MessageReference") :
                    HasPattern(bundle, r.id, r.attribute)}}

\* the value of the term a term reference resolves to in the bundle
TermTargets(bundle, pattern) ==
    {EntryOf(bundle, ref.id).value :
        ref \in {r \in DirectInlines(pattern, "TermReference") :
                    /\ r.id \in DOMAIN bundle.entries
                    /\ EntryOf(bundle, r.id).kind = "Term"}}

RECURSIVE MessageReach(_, _, _)
MessageReach(bundle, patterns, n) ==
    IF n = 0 THEN patterns
    ELSE MessageReach(bundle,
                      patterns \cup UNION {MessageTargets(bundle, p) : p \in patterns},
                      n - 1)

\* the patterns reached from the key's pattern through message references
ReachedPatterns(bundle) ==
    MessageReach(bundle, {KeyPattern(bundle)}, Cardinality(DOMAIN bundle.entries))

RECURSIVE VariablesIn(_), VariablesInExpression(_), VariablesInInline(_)

VariablesInInline(inline) ==
    CASE inline.type = "VariableReference" -> {inline.id}
      [] inline.type = "FunctionReference" ->
            UNION {VariablesInInline(inline.positional[i]) : i \in DOMAIN inline.positional}
            \cup UNION {VariablesInInline(inline.named[i].value) : i \in DOMAIN inline.named}
      [] inline.type = "InlinePlaceable" -> VariablesInExpression(inline.expression)
      [] OTHER -> {}

VariablesInExpression(expression) ==
    IF expression.type = "Inline" THEN VariablesInInline(expression.inline)
    ELSE VariablesInInline(expression.selector)
         \cup UNION {VariablesIn(expression.variants[i].value) :
                        i \in DOMAIN expression.variants}

\* the variables written in the pattern itself, wherever they occur
VariablesIn(pattern) ==
    UNION {IF pattern[i].type = "Placeable"
           THEN VariablesInExpression(pattern[i].expression)
           ELSE {} : i \in DOMAIN pattern}

\* C16 (as stated): the result includes the variables of every pattern that
\* the key's pattern refers to by a message reference or by a term reference
C16_Original ==
    RequiredVariablesReturned =>
        \A l \in DOMAIN QueriedBundles :
            LET bundle == QueriedBundles[l]
            IN  \A target \in MessageTargets(bundle, KeyPattern(bundle))
                                \cup TermTargets(bundle, KeyPattern(bundle)) :
                    DirectVariables(target) \subseteq query.result.value

\* C16 (amended): the result includes the variables of every pattern reached
\* through message references, resolved in the bundle of the referring
\* pattern, recursively; term references are not followed, every variable of
\* the result is written in a pattern reached through message references
C16_MessageReferences ==
    RequiredVariablesReturned =>
        /\ \A l \in DOMAIN QueriedBundles :
              \A reached \in ReachedPatterns(QueriedBundles[l]) :
                  DirectVariables(reached) \subseteq query.result.value
        /\ \A v \in query.result.value :
              \E l \in DOMAIN QueriedBundles :
                  \E reached \in ReachedPatterns(QueriedBundles[l]) :
                      v \in VariablesIn(reached)

\* a chain of two message references, the second resolved to the definition
\* that overrides it in the regional bundle
C16_Witness ==
    /\ RequiredVariablesReturned
    /\ query.key = <<"chain">>
    /\ {"more", "extra", "name", "nick"} \subseteq query.result.value

\* C17: a select expression contributes the variables of its selector and
\* those of the pattern of every variant, not only of the default one
C17_Select ==
    RequiredVariablesReturned =>
        \A l \in DOMAIN QueriedBundles :
            \A select \in DirectSelects(KeyPattern(QueriedBundles[l])) :
                /\ VariablesInInline(select.selector) \subseteq query.result.value
                /\ \A i \in DOMAIN select.variants :
                      DirectVariables(select.variants[i].value)
                          \subseteq query.result.value

\* a select on a variable whose two variants use one variable each
C17_Witness ==
    /\ RequiredVariablesReturned
    /\ \E l \in DOMAIN QueriedBundles :
          \E select \in DirectSelects(KeyPattern(QueriedBundles[l])) :
              /\ select.selector.type = "VariableReference"
              /\ \E i, j \in DOMAIN select.variants :
                    /\ ~select.variants[i].default
                    /\ DirectVariables(select.variants[i].value) # {}
                    /\ DirectVariables(select.variants[i].value)
                          # DirectVariables(select.variants[j].value)

\* the bundle lacks the message, the attribute or the value asked for, or a
\* message referred to from a pattern reached from it
LacksPattern(bundle) ==
    \/ ~HasPattern(bundle, KeyMessageId(query.key), KeyAttribute(query.key))
    \/ \E reached \in ReachedPatterns(bundle) :
          \E ref \in DirectInlines(reached, "MessageReference") :
              ~HasPattern(bundle, ref.id, ref.attribute)

FailingLocales == {l \in DOMAIN QueriedBundles : LacksPattern(QueriedBundles[l])}

\* the error is that of the least of the failing locales
ErrorOfLeastFailing ==
    /\ query.result.kind = "Err"
    /\ query.result.error.locale \in FailingLocales
    /\ \A l \in FailingLocales :
          l = query.result.error.locale \/ locale_less(query.result.error.locale, l)

\* C18 (as stated): required_variables returns an error whenever at least one
\* bundle of the catalog lacks the message, the attribute, the value or a
\* referenced message, and the error is that of the least failing locale,
\* whatever the order in which the bundle table yields the bundles
C18_Original ==
    (query.op = "required_variables" /\ query.resource \in DOMAIN resources) =>
        (FailingLocales # {} => ErrorOfLeastFailing)

\* the same, for the calls that return
C18_WhenReturning ==
    (/\ query.op = "required_variables"
     /\ query.resource \in DOMAIN resources
     /\ query.result # StackOverflow) =>
        (FailingLocales # {} => ErrorOfLeastFailing)

----------------------------------------------------------------------------
(* Properties of required_functions and of the queries as a whole *)

RECURSIVE FunctionsIn(_), FunctionsInExpression(_), FunctionsInInline(_)

FunctionsInInline(inline) ==
    CASE inline.type = "FunctionReference" ->
            {inline.id}
            \cup UNION {FunctionsInInline(inline.positional[i]) :
                           i \in DOMAIN inline.positional}
            \cup UNION {FunctionsInInline(inline.named[i].value) : i \in DOMAIN inline.named}
      [] inline.type = "TermReference" ->
            UNION {FunctionsInInline(inline.named[i].value) : i \in DOMAIN inline.named}
      [] inline.type = "InlinePlaceable" -> FunctionsInExpression(inline.expression)
      [] OTHER -> {}

FunctionsInExpression(expression) ==
    IF expression.type = "Inline" THEN FunctionsInInline(expression.inline)
    ELSE FunctionsInInline(expression.selector)
         \cup UNION {FunctionsIn(expression.variants[i].value) :
                        i \in DOMAIN expression.variants}

\* the functions referred to in the pattern, wherever the reference occurs
FunctionsIn(pattern) ==
    UNION {IF pattern[i].type = "Placeable"
           THEN FunctionsInExpression(pattern[i].expression)
           ELSE {} : i \in DOMAIN pattern}

\* the value and attribute patterns of every entry of every document owned
OwnedPatterns ==
    UNION {UNION {LET entry == fluent_resources[r][id]
                  IN  (IF entry.kind = "Term" THEN {entry.value}
                       ELSE IF entry.value # None THEN {entry.value[1]} ELSE {})
                      \cup {entry.attributes[i].value : i \in DOMAIN entry.attributes} :
                     id \in DOMAIN fluent_resources[r]} :
              r \in DOMAIN fluent_resources}

\* C19 (as stated): required_functions returns exactly the identifiers of all
\* function references occurring anywhere in the patterns of the documents the
\* engine owns, function arguments and nested placeables included
C19_Original ==
    query.op = "required_functions" =>
        query.result = UNION {FunctionsIn(pattern) : pattern \in OwnedPatterns}

\* what the call does return: the functions referred to directly by a
\* placeable or by a selector, in any owned document, layered or not
C19_DirectReferences ==
    query.op = "required_functions" =>
        /\ query.result \subseteq UNION {FunctionsIn(pattern) : pattern \in OwnedPatterns}
        /\ \A pattern \in OwnedPatterns :
              {f.id : f \in DirectInlines(pattern, "FunctionReference")}
                  \subseteq query.result

\* the result of the same query on the engine as it is before the call
AnswerOf(q) ==
    CASE q.op = "try_translate_with_args" ->
            try_translate_with_args(q.lang, q.resource, q.key, q.args)
      [] q.op = "translate_with_args" ->
            Message_translate_with_args(NewMessage(q.resource, q.key, q.local_args),
                                        q.lang, q.args)
      [] q.op = "translate" ->
            Message_translate(NewMessage(q.resource, q.key, q.local_args), q.lang)
      [] q.op = "required_variables" ->
            required_variables(q.resource, q.key, q.iteration)
      [] q.op = "required_functions" -> required_functions

----------------------------------------------------------------------------
(* Properties of the arguments of a message *)

\* the arguments the claim expects a message to be formatted with
ExpectedArgs(local_args, args) ==
    IF local_args # None /\ args # None
    THEN Some([k \in DOMAIN local_args[1] \cup DOMAIN args[1] |->
                  IF k \in DOMAIN args[1] THEN args[1][k] ELSE local_args[1][k]])
    ELSE IF local_args # None THEN local_args ELSE args

\* C26: a message is translated as the engine translates its catalog and key with
\* the union of the arguments bound to the message and the arguments of the call,
\* the call's value taken for a name in both, and with the only set when one of
\* the two is absent
C26_MergedArguments ==
    query.op \in {"translate", "translate_with_args"} =>
        query.attempt = try_translate_with_args(query.lang, query.resource, query.key,
                                                ExpectedArgs(query.local_args, query.args))

\* `hello = Hi { $name } { $nick }`: name is given by both, nick is bound only
C26_Witness ==
    /\ query.op = "translate_with_args"
    /\ query.local_args # None /\ query.args # None
    /\ "nick" \notin DOMAIN query.args[1]
    /\ query.local_args[1]["name"] # query.args[1]["name"]
    /\ query.attempt = Ok(<<"Hi", "Ann", "Bob">>)

----------------------------------------------------------------------------
(* Properties of the recursion of required_variables *)

\* C27 (as stated): every required_variables call returns, with the set of
\* variables or with an error; a message whose pattern refers to itself makes it
\* return an error
C27_Original ==
    query.op = "required_variables" =>
        /\ query.result.kind \in {"Ok", "Err"}
        /\ (query.resource = Home /\ query.key = <<"loop">>) => query.result.kind = "Err"

\* outside the key of the self-referring message every call returns
C27_AcyclicReturns ==
    (query.op = "required_variables" /\ query.key # <<"loop">>) =>
        query.result.kind \in {"Ok", "Err"}

----------------------------------------------------------------------------
(* Properties of the bundle table of a built engine *)

\* C28: a built engine has, for every registered catalog, a bundle for each main
\* locale of the graph and for no other locale; try_translate_with_args on a
\* registered catalog fails with LocaleNotSupported exactly when the locale is
\* not a main locale, a fallback target holding its own named document included
C28_BundlesOfMains ==
    phase = "built" =>
        /\ DOMAIN resources = DOMAIN named_resources
        /\ \A name \in DOMAIN resources : DOMAIN resources[name] = main_locales(locales)
        /\ (query.op = "try_translate_with_args" /\ query.resource \in DOMAIN named_resources)
              => (Fails(query.result, "LocaleNotSupported")
                    <=> query.lang \notin main_locales(locales))

\* en is the fallback of en-GB and not a main, and holds a document of the catalog
C28_Witness ==
    /\ phase = "built"
    /\ query.op = "try_translate_with_args"
    /\ query.resource = Home /\ query.lang = "en"
    /\ "en" \in mandatory_locales(locales) \ main_locales(locales)
    /\ "en" \in DOMAIN named_resources[Home]
    /\ Fails(query.result, "LocaleNotSupported")

----------------------------------------------------------------------------
(* Properties of the terminal locale of a route *)

\* the last locale of the resolution route of a main locale
TerminalOf(main) ==
    LET resolution == locale_resolution_route(locales, main)[1]
    IN  resolution[Len(resolution)]

\* C30: for every entry of the builder's valid graph the resolution route of the
\* main locale ends at the entry's mandatory locale; in a built engine the bundle
\* of every catalog and main locale holds the catalog's named document of the
\* last locale of the route
C30_TerminalDocument ==
    /\ \A i \in DOMAIN locales :
          /\ locale_resolution_route(locales, locales[i].main) # None
          /\ TerminalOf(locales[i].main) = mandatory_locale_for(locales, locales[i])
    /\ phase = "built" =>
          \A name \in DOMAIN resources : \A main \in DOMAIN resources[name] :
             /\ name \in DOMAIN named_resources
             /\ TerminalOf(main) \in DOMAIN named_resources[name]
             /\ Contains(resources[name][main].resources,
                         named_resources[name][TerminalOf(main)])

\* the bundle of a main locale without a named document of its own, made of the
\* named document of its fallback
C30_Witness ==
    /\ phase = "built"
    /\ \E name \in DOMAIN resources : \E main \in DOMAIN resources[name] :
          /\ TerminalOf(main) # main
          /\ main \notin DOMAIN named_resources[name]
          /\ resources[name][main].resources = <<named_resources[name][TerminalOf(main)]>>

----------------------------------------------------------------------------
(* Properties of the registration tables *)

IsRegistered(catalog, locale) ==
    catalog \in DOMAIN named_resources /\ locale \in DOMAIN named_resources[catalog]

\* the call add_named_resource(name, relative_path, locale, _) is the step taken
NamedCall(name, relative_path, locale) ==
    \E resource \in Documents(Len(fluent_resources)) :
        AddNamedResource(name, relative_path, locale, resource)

\* C21: a call of add_named_resource for a catalog name and locale already
\* registered, the catalog name being the relative path joined with the file name
\* and normalised, panics and leaves the named table and the store as they were;
\* no step ever changes or drops the document of a registered pair, and every
\* catalog name of the table is in normalised form
C21_DuplicateAborts ==
    [][/\ \A name \in RegisterNames, relative_path \in RegisterPaths,
             locale \in BuilderLocaleIds :
             (/\ IsRegistered(normalized_path(path_join(relative_path, name)), locale)
              /\ NamedCall(name, relative_path, locale))
             => /\ phase' = "panicked"
                /\ UNCHANGED <<named_resources, fluent_resources>>
       /\ \A catalog \in DOMAIN named_resources :
             \A locale \in DOMAIN named_resources[catalog] :
                /\ catalog \in DOMAIN named_resources'
                /\ locale \in DOMAIN named_resources'[catalog]
                /\ named_resources'[catalog][locale] = named_resources[catalog][locale]
       /\ \A catalog \in DOMAIN named_resources' :
             catalog = normalized_path(catalog)]_vars

\* a call panicked on the catalog "n/about", registered once for en
C21_Witness ==
    /\ phase = "panicked"
    /\ named_resources = (<<"n", "/", "about">> :> ("en" :> 0))
    /\ Len(fluent_resources) = 1

\* how many times a store index is held by a sequence of indices
CountIn(indices, index) == Cardinality({i \in DOMAIN indices : indices[i] = index})

RECURSIVE SumOver(_, _)
SumOver(S, f) ==
    IF S = {} THEN 0
    ELSE LET x == CHOOSE x \in S : TRUE IN f[x] + SumOver(S \ {x}, f)

\* the number of table entries holding a store index, over the three tables
Holders(index) ==
    CountIn(global_unnamed_resources, index)
    + SumOver(DOMAIN unnamed_resources,
              [k \in DOMAIN unnamed_resources |-> CountIn(unnamed_resources[k], index)])
    + Cardinality({<<catalog, locale>> \in (DOMAIN named_resources) \X LocaleIds :
                      /\ locale \in DOMAIN named_resources[catalog]
                      /\ named_resources[catalog][locale] = index})

HeldIndices ==
    Range(global_unnamed_resources)
    \cup UNION {Range(unnamed_resources[k]) : k \in DOMAIN unnamed_resources}
    \cup UNION {{named_resources[c][l] : l \in DOMAIN named_resources[c]} :
                   c \in DOMAIN named_resources}

TablesSound ==
    /\ \A index \in HeldIndices : index \in 0..(Len(fluent_resources) - 1)
    /\ \A index \in 0..(Len(fluent_resources) - 1) : Holders(index) = 1

\* C29: on a builder, after any sequence of add_* calls, every index held by the
\* global, path-unnamed and named tables is the index of a document of the store,
\* every document's index is held by exactly one table entry, and each call leaves
\* the documents already stored at their index
C29_TablesAndStore ==
    /\ [](phase \in {"builder", "panicked"} => TablesSound)
    /\ [][fluent_resources = SubSeq(fluent_resources', 1, Len(fluent_resources))]_vars

\* a builder holding one document of each contribution kind
C29_Witness ==
    /\ phase = "builder"
    /\ Len(fluent_resources) = 3
    /\ global_unnamed_resources # <<>>
    /\ unnamed_resources # EmptyMap
    /\ named_resources # EmptyMap

----------------------------------------------------------------------------
(* Properties of parse                                                      *)
(* What the call has to return is read off the directory and the graph it   *)
(* was given, entry by entry.                                               *)

ParseReturned == parse.pc = "returned"

\* the name ends in ".ftl"
HasResourceExtension(name) ==
    Len(name) >= 3 /\ name[Len(name) - 1] = "." /\ name[Len(name)] = "ftl"

StemOf(name) == SubSeq(name, 1, Len(name) - 2)

IsResourceFile(e) == e.kind = "file" /\ HasResourceExtension(e.name)

PathOf(e) == parse.path \o <<"/">> \o e.name

\* the locale a directory name spells, if any
SpelledLocale(dir_name) ==
    IF dir_name = <<"en">> THEN Some("en")
    ELSE IF dir_name \in {<<"en", "-", "GB">>, <<"en", "_", "GB">>} THEN Some("en-GB")
    ELSE IF dir_name = <<"fr">> THEN Some("fr")
    ELSE None

HasGraph == parse.locales_option # None

GraphLocales ==
    IF HasGraph
    THEN {entries_in[i].main : i \in DOMAIN entries_in}
         \cup {entries_in[i].fallback[1] :
                   i \in {j \in DOMAIN entries_in : entries_in[j].fallback # None}}
    ELSE {}

\* the locales of the graph that fall back on nothing
GraphMandatory ==
    {l \in GraphLocales :
        \A i \in DOMAIN entries_in : entries_in[i].main = l => entries_in[i].fallback = None}

\* a root directory whose subtree is walked
IsVisitedDir(e) ==
    /\ e.kind = "dir"
    /\ SpelledLocale(e.name) # None
    /\ HasGraph => SpelledLocale(e.name)[1] \in GraphLocales

\* a root file with the resource extension and no '_' in front
IsOffending(e) == IsResourceFile(e) /\ e.name[1] # "_"

IsUnreadable(e) == IsResourceFile(e) /\ e.name[1] = "_" /\ e.content = InvalidSource

IsUnparseableDir(e) == e.kind = "dir" /\ SpelledLocale(e.name) = None

\* a resource file of the subtree that does not parse
RECURSIVE HasUnreadable(_)
HasUnreadable(entries) ==
    /\ entries # <<>>
    /\ \/ IF Head(entries).kind = "dir" THEN HasUnreadable(Head(entries).entries)
          ELSE HasResourceExtension(Head(entries).name)
               /\ Head(entries).content = InvalidSource
       \/ HasUnreadable(Tail(entries))

\* a second directory of a locale: it registers "about" for the locale again
IsClash(k) ==
    /\ IsVisitedDir(parse.entries[k])
    /\ \E j \in 1..(k - 1) :
          /\ IsVisitedDir(parse.entries[j])
          /\ SpelledLocale(parse.entries[j].name) = SpelledLocale(parse.entries[k].name)

\* the walk stops at the k-th entry of the root if it gets there
FailsAt(k) ==
    LET e == parse.entries[k]
    IN  \/ IsOffending(e)
        \/ IsUnreadable(e)
        \/ ~HasGraph /\ IsUnparseableDir(e)
        \/ IsVisitedDir(e) /\ HasUnreadable(e.entries)
        \/ IsClash(k)

IsFirstFailure(k) == FailsAt(k) /\ \A j \in 1..(k - 1) : ~FailsAt(j)

NoFailure == \A k \in DOMAIN parse.entries : ~FailsAt(k)

\* C22 as stated: parse fails with GlobalNamedResource, carrying the path of the
\* file, whenever a file directly under the root has no '_' in front
C22_Original ==
    ParseReturned =>
        \A k \in DOMAIN parse.entries :
            LET e == parse.entries[k]
            IN  e.kind = "file" /\ e.name[1] # "_"
                    => parse.result = Err(GlobalNamedResource(PathOf(e)))

\* C22: a root file with the resource extension and no '_' in front makes parse
\* fail; when it is the first root entry that fails, in the order of the
\* directory, the error is GlobalNamedResource with its path; and
\* GlobalNamedResource is returned for such a file only
C22_FirstOffendingFile ==
    ParseReturned =>
        /\ \A k \in DOMAIN parse.entries :
              IsOffending(parse.entries[k]) =>
                  /\ parse.result.kind # "Ok"
                  /\ IsFirstFailure(k) =>
                         parse.result = Err(GlobalNamedResource(PathOf(parse.entries[k])))
        /\ (parse.result.kind = "Err" /\ parse.result.error.type = "GlobalNamedResource")
               => \E k \in DOMAIN parse.entries :
                     /\ IsOffending(parse.entries[k])
                     /\ parse.result.error.path = PathOf(parse.entries[k])

\* README.md and _global.ftl are passed, then global.ftl is refused
C22_Witness ==
    /\ ParseReturned
    /\ Len(parse.entries) = 3
    /\ parse.entries[1].name = <<"README", ".", "md">>
    /\ parse.entries[2].name = <<"_", "global", ".", "ftl">>
    /\ parse.entries[3].name = <<"global", ".", "ftl">>
    /\ parse.result = Err(GlobalNamedResource(<<"locales", "/", "global", ".", "ftl">>))
    /\ phase = "parse_failed"

\* the documents of the resource files of a subtree
RECURSIVE DocumentsUnder(_)
DocumentsUnder(entries) ==
    IF entries = <<>> THEN {}
    ELSE LET e == Head(entries)
         IN  (IF e.kind = "dir" THEN DocumentsUnder(e.entries)
              ELSE IF HasResourceExtension(e.name) THEN {e.content} ELSE {})
             \cup DocumentsUnder(Tail(entries))

StoredDocuments == {fluent_resources[i] : i \in DOMAIN fluent_resources}

\* a root directory that is passed over when a graph is given
IsSkippedDir(e) == e.kind = "dir" /\ HasGraph /\ ~IsVisitedDir(e)

WithoutSkipped == SelectSeq(parse.entries, LAMBDA e : ~IsSkippedDir(e))

IsParseLangDir(result) == result.kind = "Err" /\ result.error.type = "ParseLangDir"

\* C23 as stated: with a graph an unparseable or unlisted root directory is
\* skipped and none of its files is registered; without a graph an unparseable
\* root directory makes parse fail with ParseLangDir
C23_Original ==
    ParseReturned =>
        \A k \in DOMAIN parse.entries :
            LET e == parse.entries[k]
            IN  /\ IsSkippedDir(e) =>
                    /\ ~IsParseLangDir(parse.result)
                    /\ parse.result.kind = "Ok"
                           => DocumentsUnder(e.entries) \cap StoredDocuments = {}
                /\ (~HasGraph /\ IsUnparseableDir(e))
                       => parse.result = Err(ParseLangDir(e.name))

\* C23: with a graph, a root directory whose name spells no locale or a locale
\* outside the graph changes nothing: parse returns what it returns for the
\* root without that directory, never ParseLangDir, and on success none of the
\* directory's documents is in the store. Without a graph, an unparseable root
\* directory makes parse fail, with ParseLangDir naming it when it is the first
\* root entry that fails
C23_SkippedOrRefused ==
    ParseReturned =>
        /\ HasGraph =>
              /\ ~IsParseLangDir(parse.result)
              /\ parse.result =
                     parse_directory(parse.path, WithoutSkipped, parse.locales_option).outcome
              /\ \A k \in DOMAIN parse.entries :
                    (IsSkippedDir(parse.entries[k]) /\ parse.result.kind = "Ok")
                        => DocumentsUnder(parse.entries[k].entries) \cap StoredDocuments = {}
        /\ ~HasGraph =>
              \A k \in DOMAIN parse.entries :
                  IsUnparseableDir(parse.entries[k]) =>
                      /\ parse.result.kind # "Ok"
                      /\ IsFirstFailure(k)
                             => parse.result = Err(ParseLangDir(parse.entries[k].name))
        /\ IsParseLangDir(parse.result) =>
              \E k \in DOMAIN parse.entries :
                  /\ IsUnparseableDir(parse.entries[k])
                  /\ parse.result.error.dir_name = parse.entries[k].name

\* the graph of "en" alone: the directories x and fr are skipped, en is walked
C23_Witness ==
    /\ ParseReturned
    /\ entries_in = <<LocaleEntry("en", None)>>
    /\ Len(parse.entries) = 3
    /\ parse.entries[1].name = <<"x">>
    /\ parse.entries[2].name = <<"fr">>
    /\ parse.entries[3].name = <<"en">>
    /\ parse.result.kind = "Ok"
    /\ Len(fluent_resources) = 5
    /\ parse.locales_visited = {"en"}

\* the locales whose directory lies under the root and is walked
VisitedLocales ==
    {SpelledLocale(parse.entries[k].name)[1] :
        k \in {j \in DOMAIN parse.entries : IsVisitedDir(parse.entries[j])}}

IsMissingLocales(result) == result.kind = "Err" /\ result.error.type = "MissingLocales"

\* C24 as stated: with a graph, parse succeeds only if every mandatory locale
\* has a visited directory under the root, and otherwise fails with
\* MissingLocales listing exactly the mandatory locales without one
C24_Original ==
    (ParseReturned /\ HasGraph) =>
        /\ parse.result.kind = "Ok" => GraphMandatory \subseteq VisitedLocales
        /\ ~(GraphMandatory \subseteq VisitedLocales)
               => parse.result = Err(MissingLocales(GraphMandatory \ VisitedLocales))

\* C24: with a graph, parse succeeds only if every mandatory locale has a
\* visited directory under the root; when no entry of the root fails, parse
\* succeeds if they all have one, whatever the other locales of the graph, and
\* otherwise fails with MissingLocales listing exactly the mandatory locales
\* without one; MissingLocales is returned in that case only
C24_MandatoryVisited ==
    (ParseReturned /\ HasGraph) =>
        /\ parse.result.kind = "Ok" => GraphMandatory \subseteq VisitedLocales
        /\ NoFailure =>
               /\ parse.locales_visited = VisitedLocales
               /\ parse.result =
                      IF GraphMandatory \subseteq VisitedLocales THEN [kind |-> "Ok"]
                      ELSE Err(MissingLocales(GraphMandatory \ VisitedLocales))
        /\ IsMissingLocales(parse.result) =>
               /\ NoFailure
               /\ parse.result.error.locales = GraphMandatory \ parse.locales_visited
               /\ parse.result.error.locales # {}

\* en-GB falls back on en and en on fr: with en-GB and en under the root, fr is
\* the one locale reported
C24_Witness ==
    /\ ParseReturned
    /\ entries_in = <<LocaleEntry("en-GB", Some("en")), LocaleEntry("en", Some("fr"))>>
    /\ parse.locales_visited = {"en-GB", "en"}
    /\ parse.result = Err(MissingLocales({"fr"}))
    /\ phase = "parse_failed"

\* relative_path.join(name), once normalised
JoinRelative(relative, name) ==
    IF relative = <<>> THEN name ELSE relative \o <<"/">> \o name

\* what the resource files of a locale's subtree have to register: the document,
\* and the table slot it goes to
RECURSIVE ExpectedUnder(_, _, _)
ExpectedUnder(entries, relative, locale) ==
    IF entries = <<>> THEN {}
    ELSE LET e == Head(entries)
         IN  (IF e.kind = "dir"
              THEN ExpectedUnder(e.entries, JoinRelative(relative, e.name), locale)
              ELSE IF ~HasResourceExtension(e.name) THEN {}
              ELSE IF e.name[1] = "_"
              THEN {[document |-> e.content, table |-> "unnamed",
                     key |-> <<relative, locale>>]}
              ELSE {[document |-> e.content, table |-> "named",
                     name |-> JoinRelative(relative, StemOf(e.name)), locale |-> locale]})
             \cup ExpectedUnder(Tail(entries), relative, locale)

ExpectedOfLocales ==
    UNION {ExpectedUnder(parse.entries[k].entries, <<>>,
                         SpelledLocale(parse.entries[k].name)[1]) :
              k \in {j \in DOMAIN parse.entries : IsVisitedDir(parse.entries[j])}}

RootDocuments ==
    {parse.entries[k].content :
        k \in {j \in DOMAIN parse.entries : IsResourceFile(parse.entries[j])}}

\* the store indices of a document
IndicesOf(document) ==
    {i \in 0..(Len(fluent_resources) - 1) : fluent_resources[i + 1] = document}

IsRegisteredAt(x) ==
    /\ Cardinality(IndicesOf(x.document)) = 1
    /\ IF x.table = "unnamed"
       THEN /\ x.key \in DOMAIN unnamed_resources
            /\ \E index \in IndicesOf(x.document) :
                  CountIn(unnamed_resources[x.key], index) = 1
       ELSE /\ x.name \in DOMAIN named_resources
            /\ x.locale \in DOMAIN named_resources[x.name]
            /\ named_resources[x.name][x.locale] \in IndicesOf(x.document)

\* C25: in the builder parse returns, every resource file of a visited locale's
\* subtree, at any depth, is stored once and held by one table slot: the
\* path-unnamed slot of its directory's relative path and the locale when its
\* stem starts with '_', else the named slot of the slash-joined relative path
\* plus stem and the locale; the store holds nothing else from the subtrees, so
\* a file without the resource extension registers nothing
C25_SubtreeRegistered ==
    (ParseReturned /\ parse.result.kind = "Ok") =>
        /\ \A x \in ExpectedOfLocales : IsRegisteredAt(x)
        /\ TablesSound
        /\ StoredDocuments = {x.document : x \in ExpectedOfLocales} \cup RootDocuments
        /\ Len(fluent_resources) = Cardinality(StoredDocuments)

\* the subtree of en: admin.ftl two directories down is the catalog
\* settings/advanced/admin, _terms.ftl goes to the slot of (settings, en)
C25_Witness ==
    /\ ParseReturned
    /\ parse.result.kind = "Ok"
    /\ Len(fluent_resources) = 5
    /\ <<"settings", "/", "advanced", "/", "admin">> \in DOMAIN named_resources
    /\ fluent_resources[named_resources[<<"settings", "/", "advanced", "/", "admin">>]["en"] + 1]
           = [id \in {"T"} |-> 5]
    /\ <<<<"settings">>, "en">> \in DOMAIN unnamed_resources
    /\ Len(unnamed_resources[<<<<"settings">>, "en">>]) = 1
    /\ fluent_resources[unnamed_resources[<<<<"settings">>, "en">>][1] + 1]
           = [id \in {"T"} |-> 3]
    /\ DOMAIN named_resources =
           {<<"about">>, <<"settings", "/", "account">>,
            <<"settings", "/", "advanced", "/", "admin">>}

====
